---- MODULE Spec2Model ----
(***************************************************************************)
(* A model of the diffy library: the linear-space Myers diff engine, the   *)
(* compaction pass, the hunk assembler, the unified patch formatter and    *)
(* parser, and the patch applier.                                          *)
(*                                                                         *)
(* Texts are sequences of atoms.  A Range is a view [offset, len] over a   *)
(* backing sequence, with a 0-based offset as in the source.  A panic of   *)
(* the program (index out of range, integer underflow, failed assertion,   *)
(* unreachable!) is the value Panic.                                       *)
(***************************************************************************)
EXTENDS Integers, Sequences, FiniteSets, TLC

\* ------------------------------------------------------------------ bounds

\* Longest input text, in atoms (lines, or bytes for the element diff).
MaxLen == 4

\* ----------------------------------------------------------------- helpers

Min(a, b) == IF a < b THEN a ELSE b

Max(a, b) == IF a > b THEN a ELSE b

Abs(a) == IF a < 0 THEN -a ELSE a

\* usize::saturating_sub
saturating_sub(a, b) == IF a > b THEN a - b ELSE 0

Panic == [tag |-> "panic"]

IsPanic(r) == r.tag = "panic"

\* let v = ...; body: the value is computed once and named in the body.
With(v, body(_)) == body(v)

\* All sequences over S of length at most n.
SeqsUpTo(S, n) == UNION {[1..k -> S] : k \in 0..n}

\* The half-open 0-based window [from, to) of a sequence.
Window(s, from, to) == [i \in 1..(to - from) |-> s[from + i]]

\* --------------------------------------------------------------- range.rs

Range(offset, len) == [offset |-> offset, len |-> len]

\* Range::new(inner, ..)
RangeFull(text) == Range(0, Len(text))

\* RangeBounds::try_index for start..end
try_index(start, end, len) == start <= end /\ end <= len

\* Range::slice(start..end); the caller checks try_index first.
slice(r, start, end) == Range(r.offset + start, end - start)

\* Range::as_slice
as_slice(text, r) == Window(text, r.offset, r.offset + r.len)

\* The i-th atom (0-based) of the view r of text.
Elem(text, r, i) == text[r.offset + i + 1]

RECURSIVE PrefixFrom(_, _, _, _, _)
PrefixFrom(t1, r1, t2, r2, i) ==
    IF i < r1.len /\ i < r2.len /\ Elem(t1, r1, i) = Elem(t2, r2, i)
    THEN PrefixFrom(t1, r1, t2, r2, i + 1)
    ELSE i

\* SliceLike::common_prefix_len for [T]
common_prefix_len(t1, r1, t2, r2) == PrefixFrom(t1, r1, t2, r2, 0)

RECURSIVE SuffixFrom(_, _, _, _, _)
SuffixFrom(t1, r1, t2, r2, i) ==
    IF i < r1.len /\ i < r2.len
       /\ Elem(t1, r1, r1.len - 1 - i) = Elem(t2, r2, r2.len - 1 - i)
    THEN SuffixFrom(t1, r1, t2, r2, i + 1)
    ELSE i

\* SliceLike::common_suffix_len for [T]
common_suffix_len(t1, r1, t2, r2) == SuffixFrom(t1, r1, t2, r2, 0)

\* A byte of a str is a continuation byte of its character
IsContinuation(b) == b >= 128 /\ b <= 191

\* str::is_char_boundary
is_char_boundary(text, index) ==
    IF index = 0 THEN TRUE
    ELSE IF index < 0 \/ index > Len(text) THEN FALSE
    ELSE IF index = Len(text) THEN TRUE
    ELSE ~IsContinuation(text[index + 1])

\* char::len_utf8, from the first byte of the character
len_utf8(b) == IF b < 128 THEN 1 ELSE IF b < 224 THEN 2 ELSE IF b < 240 THEN 3 ELSE 4

\* &self[range] of a str: in bounds and on character boundaries, or a panic
str_index(text, r) ==
    /\ try_index(r.offset, r.offset + r.len, Len(text))
    /\ r.offset >= 0
    /\ is_char_boundary(text, r.offset)
    /\ is_char_boundary(text, r.offset + r.len)

\* SliceLike::common_prefix_len for str: character by character, the answer
\* in bytes
RECURSIVE StrPrefixFrom(_, _, _, _, _)
StrPrefixFrom(t1, r1, t2, r2, i) ==
    IF i >= r1.len \/ i >= r2.len THEN Min(r1.len, r2.len)
    ELSE IF Window(t1, r1.offset + i, r1.offset + i + len_utf8(Elem(t1, r1, i)))
            = Window(t2, r2.offset + i, r2.offset + i + len_utf8(Elem(t2, r2, i)))
         THEN StrPrefixFrom(t1, r1, t2, r2, i + len_utf8(Elem(t1, r1, i)))
         ELSE i

str_common_prefix_len(t1, r1, t2, r2) == StrPrefixFrom(t1, r1, t2, r2, 0)

\* The bytes of the last character of the first `end` bytes of the view
RECURSIVE LastCharLen(_, _, _, _)
LastCharLen(text, r, end, n) ==
    IF n < end /\ IsContinuation(Elem(text, r, end - n)) THEN LastCharLen(text, r, end, n + 1)
    ELSE n

\* SliceLike::common_suffix_len for str: character by character from the
\* end, the answer in bytes
RECURSIVE StrSuffixFrom(_, _, _, _, _)
StrSuffixStep(t1, r1, t2, r2, i, n1, n2) ==
    IF Window(t1, r1.offset + r1.len - i - n1, r1.offset + r1.len - i)
       = Window(t2, r2.offset + r2.len - i - n2, r2.offset + r2.len - i)
    THEN StrSuffixFrom(t1, r1, t2, r2, i + n1)
    ELSE i

StrSuffixFrom(t1, r1, t2, r2, i) ==
    IF i >= r1.len \/ i >= r2.len THEN Min(r1.len, r2.len)
    ELSE StrSuffixStep(t1, r1, t2, r2, i,
                       LastCharLen(t1, r1, r1.len - i, 1),
                       LastCharLen(t2, r2, r2.len - i, 1))

str_common_suffix_len(t1, r1, t2, r2) == StrSuffixFrom(t1, r1, t2, r2, 0)

\* What the length operators answer when as_slice panicked
SliceFailed == -1

\* Range::common_prefix_len: as_slice of both views, then the operator of
\* the slice type T, "slice" for [T] and "str" for str
Range_common_prefix_len(T, t1, r1, t2, r2) ==
    IF T = "str"
    THEN IF str_index(t1, r1) /\ str_index(t2, r2)
         THEN str_common_prefix_len(t1, r1, t2, r2)
         ELSE SliceFailed
    ELSE common_prefix_len(t1, r1, t2, r2)

\* Range::common_suffix_len
Range_common_suffix_len(T, t1, r1, t2, r2) ==
    IF T = "str"
    THEN IF str_index(t1, r1) /\ str_index(t2, r2)
         THEN str_common_suffix_len(t1, r1, t2, r2)
         ELSE SliceFailed
    ELSE common_suffix_len(t1, r1, t2, r2)

\* ---------------------------------------------------------------- diff.rs

\* DiffRange: Equal carries both ranges, Delete the old one, Insert the new one.
NoRange == Range(0, 0)

Equal(r1, r2) == [kind |-> "Equal", r1 |-> r1, r2 |-> r2]

Delete(r1) == [kind |-> "Delete", r1 |-> r1, r2 |-> NoRange]

Insert(r2) == [kind |-> "Insert", r1 |-> NoRange, r2 |-> r2]

\* boundary_down of to_str: the bytes back from pos to a character boundary
RECURSIVE BoundaryDownFrom(_, _, _)
BoundaryDownFrom(text, pos, adjust) ==
    IF is_char_boundary(text, pos - adjust) THEN adjust
    ELSE BoundaryDownFrom(text, pos, adjust + 1)

boundary_down(text, pos) == BoundaryDownFrom(text, pos, 0)

\* boundary_up of to_str: the bytes on from pos to a character boundary
RECURSIVE BoundaryUpFrom(_, _, _)
BoundaryUpFrom(text, pos, adjust) ==
    IF is_char_boundary(text, pos + adjust) THEN adjust
    ELSE BoundaryUpFrom(text, pos, adjust + 1)

boundary_up(text, pos) == BoundaryUpFrom(text, pos, 0)

\* DiffRange::to_str, the Equal arm: both ranges shrink by what the OLD text
\* needs, first at the front, then at the back.  A length that goes below
\* zero is a panic: with overflow checks at the subtraction, without them
\* at Range::new, whose end is then before its start.
ToStrEqualDown(text1, text2, offset1, len1, offset2, len2, adjust) ==
    IF len1 - adjust < 0 \/ len2 - adjust < 0 THEN Panic
    ELSE IF \/ ~try_index(offset1, offset1 + len1 - adjust, Len(text1))
            \/ ~try_index(offset2, offset2 + len2 - adjust, Len(text2))
         THEN Panic
         ELSE [tag |-> "ok",
               range |-> Equal(Range(offset1, len1 - adjust), Range(offset2, len2 - adjust))]

ToStrEqualUp(text1, text2, r1, r2, adjust) ==
    IF r1.len - adjust < 0 \/ r2.len - adjust < 0 THEN Panic
    ELSE ToStrEqualDown(text1, text2, r1.offset + adjust, r1.len - adjust,
                        r2.offset + adjust, r2.len - adjust,
                        boundary_down(text1, r1.offset + r1.len))

\* DiffRange::to_str, the Delete and Insert arms: the range grows to the
\* boundary before it and to the boundary after it.
ToStrGrown(text, r, down, up) ==
    IF ~try_index(r.offset - down, r.offset + r.len + up, Len(text)) \/ r.offset - down < 0
    THEN Panic
    ELSE [tag |-> "ok", range |-> Range(r.offset - down, r.len + down + up)]

ToStrGrow(text, r) ==
    ToStrGrown(text, r, boundary_down(text, r.offset), boundary_up(text, r.offset + r.len))

\* DiffRange::to_str
ToStrEdit(kind, r) ==
    IF IsPanic(r) THEN Panic
    ELSE [tag |-> "ok",
          range |-> [kind |-> kind,
                     r1 |-> IF kind = "Delete" THEN r.range ELSE Range(0, 0),
                     r2 |-> IF kind = "Insert" THEN r.range ELSE Range(0, 0)]]

to_str(d, text1, text2) ==
    IF d.kind = "Equal"
    THEN ToStrEqualUp(text1, text2, d.r1, d.r2, boundary_up(text1, d.r1.offset))
    ELSE IF d.kind = "Delete" THEN ToStrEdit("Delete", ToStrGrow(text1, d.r1))
    ELSE ToStrEdit("Insert", ToStrGrow(text2, d.r2))

\* DiffRange::inner: the first range of the variant.
inner(d) == IF d.kind = "Insert" THEN d.r2 ELSE d.r1

\* max_d without the additional 1
max_d_without_one(len1, len2) == (len1 + len2 + 1) \div 2

\* Myers::max_d
max_d(len1, len2) == (len1 + len2 + 1) \div 2 + 1

\* V::new with one entry less
V_new_one_less(maxd) == [offset |-> maxd, v |-> [i \in 1..(2 * maxd - 1) |-> 0]]

\* V::new: 2 * max_d zeroes, indexed by k + offset.
V_new(maxd) == [offset |-> maxd, v |-> [i \in 1..(2 * maxd) |-> 0]]

\* V::len
V_len(V) == Len(V.v)

\* The index k + offset is inside the vector (v is 1-based here).
VIn(V, k) == (k + V.offset + 1) \in 1..Len(V.v)

\* Index<isize> for V
VGet(V, k) == V.v[k + V.offset + 1]

\* IndexMut<isize> for V
VSet(V, k, x) == [V EXCEPT !.v[k + V.offset + 1] = x]

Snake(xs, ys, xe, ye) == [x_start |-> xs, y_start |-> ys, x_end |-> xe, y_end |-> ye]

\* n - m is odd
IsOdd(delta) == delta % 2 = 1

\* The x a diagonal starts from: v[k + 1] when the step is downward, else
\* v[k - 1] + 1.  The reads are inside the vector, or the run panics.
StartX(v, d, k) ==
    IF ~((k # -d => VIn(v, k - 1)) /\ ((k = -d \/ k # d) => VIn(v, k + 1))) THEN -1
    ELSE IF k = -d \/ (k # d /\ VGet(v, k - 1) < VGet(v, k + 1))
         THEN VGet(v, k + 1)
         ELSE VGet(v, k - 1) + 1

\* One iteration of the forward loop of find_middle_snake, for diagonal k.
\* Returns "found" with the snake, "cont" with the updated vf, or a panic.
ForwardK(O, old, N, new, vf, vb, d, k) ==
    With(StartX(vf, d, k), LAMBDA x0 :
    \* old.get(x..) and new.get(y..) are Some iff x <= n and y <= m
    \* (a negative y wraps to a huge usize and get returns None)
    With(IF x0 <= old.len /\ x0 - k >= 0 /\ x0 - k <= new.len
         THEN x0 + common_prefix_len(O, slice(old, x0, old.len), N, slice(new, x0 - k, new.len))
         ELSE x0, LAMBDA x :
    With(old.len - new.len, LAMBDA delta :
        IF x0 < 0 \/ ~VIn(vf, k) THEN Panic
        ELSE IF IsOdd(delta) /\ Abs(k - delta) <= d - 1
        THEN IF ~VIn(vb, -(k - delta)) THEN Panic
             ELSE IF x + VGet(vb, -(k - delta)) >= old.len
             THEN [tag |-> "found", dist |-> 2 * d - 1,
                   snake |-> Snake(x0, x0 - k, x, x - k),
                   vf |-> VSet(vf, k, x), vb |-> vb]
             ELSE [tag |-> "cont", vf |-> VSet(vf, k, x), vb |-> vb]
        ELSE [tag |-> "cont", vf |-> VSet(vf, k, x), vb |-> vb])))

\* One iteration of the backward loop of find_middle_snake, for diagonal k.
BackwardK(O, old, N, new, vf, vb, d, k) ==
    With(StartX(vb, d, k), LAMBDA x0 :
    \* `x < n && y < m` on usize: a negative y has wrapped and is not < m
    With(IF x0 < old.len /\ x0 - k >= 0 /\ x0 - k < new.len
         THEN x0 + common_suffix_len(O, slice(old, 0, old.len - x0),
                                     N, slice(new, 0, new.len - (x0 - k)))
         ELSE x0, LAMBDA x :
    With(old.len - new.len, LAMBDA delta :
        IF x0 < 0 \/ ~VIn(vb, k) THEN Panic
        ELSE IF ~IsOdd(delta) /\ Abs(k - delta) <= d
        THEN IF ~VIn(vf, -(k - delta)) THEN Panic
             ELSE IF x + VGet(vf, -(k - delta)) >= old.len
             THEN \* n - x, m - y, n - x0, m - y0 on usize
                  IF x > old.len \/ x - k > new.len \/ x0 - k < 0 THEN Panic
                  ELSE [tag |-> "found", dist |-> 2 * d,
                        snake |-> Snake(old.len - x, new.len - (x - k),
                                        old.len - x0, new.len - (x0 - k)),
                        vf |-> vf, vb |-> VSet(vb, k, x)]
             ELSE [tag |-> "cont", vf |-> vf, vb |-> VSet(vb, k, x)]
        ELSE [tag |-> "cont", vf |-> vf, vb |-> VSet(vb, k, x)])))

\* for k in (-d..=d).rev().step_by(2), forward pass
RECURSIVE ForwardLoop(_, _, _, _, _, _, _, _)
ForwardLoop(O, old, N, new, vf, vb, d, k) ==
    IF k < -d THEN [tag |-> "cont", vf |-> vf, vb |-> vb]
    ELSE With(ForwardK(O, old, N, new, vf, vb, d, k), LAMBDA r :
         IF r.tag # "cont" THEN r
         ELSE ForwardLoop(O, old, N, new, r.vf, r.vb, d, k - 2))

\* for k in (-d..=d).rev().step_by(2), backward pass
RECURSIVE BackwardLoop(_, _, _, _, _, _, _, _)
BackwardLoop(O, old, N, new, vf, vb, d, k) ==
    IF k < -d THEN [tag |-> "cont", vf |-> vf, vb |-> vb]
    ELSE With(BackwardK(O, old, N, new, vf, vb, d, k), LAMBDA r :
         IF r.tag # "cont" THEN r
         ELSE BackwardLoop(O, old, N, new, r.vf, r.vb, d, k - 2))

\* for d in 0..d_max; falling out of the loop is unreachable!()
RECURSIVE DLoop(_, _, _, _, _, _, _)
DLoop(O, old, N, new, vf, vb, d) ==
    IF d >= max_d(old.len, new.len) THEN Panic
    ELSE With(ForwardLoop(O, old, N, new, vf, vb, d, d), LAMBDA f :
         IF f.tag # "cont" THEN f
         ELSE With(BackwardLoop(O, old, N, new, f.vf, f.vb, d, d), LAMBDA b :
              IF b.tag # "cont" THEN b
              ELSE DLoop(O, old, N, new, b.vf, b.vb, d + 1)))

\* Myers::find_middle_snake
find_middle_snake(O, old, N, new, vf, vb) ==
    IF ~VIn(vf, 1) \/ ~VIn(vb, 1) THEN Panic
    ELSE IF V_len(vf) < max_d(old.len, new.len) \/ V_len(vb) < max_d(old.len, new.len)
         THEN Panic
         ELSE DLoop(O, old, N, new, VSet(vf, 1, 0), VSet(vb, 1, 0), 0)

\* conquer's last step: the common suffix, when there is one, is pushed.
PushSuffix(r, common_suffix) ==
    IF IsPanic(r) THEN r
    ELSE IF common_suffix.r1.len > 0
         THEN [r EXCEPT !.solution = Append(r.solution, common_suffix)]
         ELSE r

\* Myers::conquer.  Returns the solution with the V arrays as the call left
\* them, or a panic.  fuel bounds the depth of the recursion: a call that
\* would recurse past it does not return (the stack overflows).
RECURSIVE conquer(_, _, _, _, _, _, _, _)
conquer(O, old0, N, new0, vf, vb, solution0, fuel) ==
    With(common_prefix_len(O, old0, N, new0), LAMBDA prefix :
    With(IF prefix > 0
         THEN Append(solution0, Equal(slice(old0, 0, prefix), slice(new0, 0, prefix)))
         ELSE solution0, LAMBDA solution :
    With(slice(old0, prefix, old0.len), LAMBDA old1 :
    With(slice(new0, prefix, new0.len), LAMBDA new1 :
    With(common_suffix_len(O, old1, N, new1), LAMBDA suffix :
    With(Equal(slice(old1, old1.len - suffix, old1.len),
               slice(new1, new1.len - suffix, new1.len)), LAMBDA common_suffix :
    With(slice(old1, 0, old1.len - suffix), LAMBDA old :
    With(slice(new1, 0, new1.len - suffix), LAMBDA new :
        IF old.len = 0
        THEN PushSuffix([tag |-> "ok", vf |-> vf, vb |-> vb,
                         solution |-> Append(solution, Insert(new))], common_suffix)
        ELSE IF new.len = 0
        THEN PushSuffix([tag |-> "ok", vf |-> vf, vb |-> vb,
                         solution |-> Append(solution, Delete(old))], common_suffix)
        ELSE With(find_middle_snake(O, old, N, new, vf, vb), LAMBDA ms :
             IF IsPanic(ms) THEN Panic
             \* split_at(mid) slices ..mid and mid..
             ELSE IF ~try_index(0, ms.snake.x_start, old.len)
                     \/ ~try_index(0, ms.snake.y_start, new.len) THEN Panic
             ELSE IF fuel = 0 THEN Panic
             ELSE With(conquer(O, slice(old, 0, ms.snake.x_start),
                               N, slice(new, 0, ms.snake.y_start),
                               ms.vf, ms.vb, solution, fuel - 1), LAMBDA a :
                  IF IsPanic(a) THEN Panic
                  ELSE PushSuffix(conquer(O, slice(old, ms.snake.x_start, old.len),
                                          N, slice(new, ms.snake.y_start, new.len),
                                          a.vf, a.vb, a.solution, fuel - 1),
                                  common_suffix)))))))))))

\* A diff that deletes all of the old and inserts all of the new
do_diff_whole(O, N) ==
    [tag |-> "ok", solution |-> <<Delete(RangeFull(O)), Insert(RangeFull(N))>>]

\* Myers::do_diff: the solution, or Panic.
do_diff(O, N) ==
    With(conquer(O, RangeFull(O), N, RangeFull(N),
                 V_new(max_d(Len(O), Len(N))), V_new(max_d(Len(O), Len(N))),
                 <<>>, Len(O) + Len(N) + 1), LAMBDA r :
         IF IsPanic(r) THEN Panic ELSE [tag |-> "ok", solution |-> r.solution])

\* ------------------------------------------------------------ diff/mod.rs

\* grow_up that leaves the offset where it was
grow_up_keeps_offset(r, adjust) == Range(r.offset, r.len + adjust)

\* Range::grow_up
grow_up(r, adjust) == Range(r.offset - adjust, r.len + adjust)

\* grow_down that leaves the length as it was
grow_down_keeps_len(r, adjust) == Range(r.offset, r.len)

\* Range::grow_down
grow_down(r, adjust) == Range(r.offset, r.len + adjust)

\* shrink_front that leaves the length as it was
shrink_front_keeps_len(r, adjust) == Range(r.offset + adjust, r.len)

\* Range::shrink_front
shrink_front(r, adjust) == Range(r.offset + adjust, r.len - adjust)

\* shrink_back that leaves the length as it was
shrink_back_keeps_len(r, adjust) == Range(r.offset, r.len)

\* Range::shrink_back
shrink_back(r, adjust) == Range(r.offset, r.len - adjust)

\* Range::shift_up
shift_up(r, adjust) == Range(r.offset - adjust, r.len)

\* Range::shift_down
shift_down(r, adjust) == Range(r.offset + adjust, r.len)

\* DiffRange::for_each: f on both ranges of an Equal, on the one range otherwise.
for_each(d, f(_)) ==
    IF d.kind = "Equal" THEN [d EXCEPT !.r1 = f(d.r1), !.r2 = f(d.r2)]
    ELSE IF d.kind = "Delete" THEN [d EXCEPT !.r1 = f(d.r1)]
    ELSE [d EXCEPT !.r2 = f(d.r2)]

\* The usize fields of a DiffRange did not underflow.
NoUnderflow(d) ==
    d.r1.offset >= 0 /\ d.r1.len >= 0 /\ d.r2.offset >= 0 /\ d.r2.len >= 0

\* Vec::insert at the 0-based index idx
VecInsert(v, idx, e) ==
    [i \in 1..(Len(v) + 1) |-> IF i <= idx THEN v[i] ELSE IF i = idx + 1 THEN e ELSE v[i - 1]]

\* Vec::remove at the 0-based index idx
VecRemove(v, idx) ==
    [i \in 1..(Len(v) - 1) |-> IF i <= idx THEN v[i] ELSE v[i + 1]]

\* Vec::swap that leaves the two where they were
VecSwap_nothing(v, a, b) == v

\* Vec::swap of the 0-based indices a and b
VecSwap(v, a, b) == [v EXCEPT ![a + 1] = v[b + 1], ![b + 1] = v[a + 1]]

\* diffs[idx] = e, 0-based
VecSet(v, idx, e) == [v EXCEPT ![idx + 1] = e]

\* The rotation of shift_diff_up once suffix_len is known to be positive:
\* the following Equal grows up by it or a new Equal is inserted there, the
\* edit shifts up and the previous Equal shrinks; emptied, it is removed.
RotateUp(diffs, pointer, suffix_len, new_equal) ==
    LET GrowUp(r) == grow_up(r, suffix_len)
        ShiftUp(r) == shift_up(r, suffix_len)
        ShrinkBack(r) == shrink_back(r, suffix_len)
    IN  With(IF pointer + 2 <= Len(diffs) /\ diffs[pointer + 2].kind = "Equal"
             THEN VecSet(diffs, pointer + 1, for_each(diffs[pointer + 2], GrowUp))
             ELSE VecInsert(diffs, pointer + 1, new_equal), LAMBDA d1 :
        With(VecSet(d1, pointer, for_each(d1[pointer + 1], ShiftUp)), LAMBDA d2 :
        With(VecSet(d2, pointer - 1, for_each(d2[pointer], ShrinkBack)), LAMBDA d3 :
            IF ~(NoUnderflow(d3[pointer + 2]) /\ NoUnderflow(d3[pointer + 1])
                 /\ NoUnderflow(d3[pointer])) THEN Panic
            ELSE IF inner(d3[pointer]).len = 0
                 THEN [tag |-> "cont", diffs |-> VecRemove(d3, pointer - 1),
                       pointer |-> pointer - 1]
                 ELSE [tag |-> "cont", diffs |-> d3, pointer |-> pointer])))

\* The arm of shift_diff_up for an edit after an Equal.
ShiftUpEqual(diffs, pointer, suffix_len, new_equal) ==
    IF suffix_len = SliceFailed THEN Panic
    ELSE IF suffix_len # 0 THEN RotateUp(diffs, pointer, suffix_len, new_equal)
    ELSE IF inner(diffs[pointer]).len = 0
         THEN [tag |-> "cont", diffs |-> VecRemove(diffs, pointer - 1),
               pointer |-> pointer - 1]
         ELSE [tag |-> "break", diffs |-> diffs, pointer |-> pointer]

\* One turn of the loop of shift_diff_up at `pointer` (0-based): the new list
\* and pointer with "cont", "break" when the edit cannot move, or a panic.
\* An Insert is compared with the old side of the Equal, a Delete with the
\* new side.
ShiftUpStep(T, O, N, diffs, pointer, this, prev) ==
    IF this.kind = "Insert" /\ prev.kind = "Equal"
    THEN With(Range_common_suffix_len(T, N, this.r2, O, prev.r1), LAMBDA suffix_len :
         ShiftUpEqual(diffs, pointer, suffix_len,
                      Equal(slice(prev.r1, prev.r1.len - suffix_len, prev.r1.len),
                            slice(this.r2, this.r2.len - suffix_len, this.r2.len))))
    ELSE IF this.kind = "Delete" /\ prev.kind = "Equal"
    THEN With(Range_common_suffix_len(T, O, this.r1, N, prev.r2), LAMBDA suffix_len :
         ShiftUpEqual(diffs, pointer, suffix_len,
                      Equal(slice(this.r1, this.r1.len - suffix_len, this.r1.len),
                            slice(prev.r2, prev.r2.len - suffix_len, prev.r2.len))))
    ELSE IF \/ (this.kind = "Insert" /\ prev.kind = "Delete")
            \/ (this.kind = "Delete" /\ prev.kind = "Insert")
    THEN [tag |-> "cont", diffs |-> VecSwap(diffs, pointer - 1, pointer),
          pointer |-> pointer - 1]
    ELSE IF this.kind \in {"Insert", "Delete"} /\ prev.kind = this.kind
    THEN LET GrowDown(r) == grow_down(r, inner(this).len)
         IN  [tag |-> "cont",
              diffs |-> VecRemove(VecSet(diffs, pointer - 1, for_each(prev, GrowDown)),
                                  pointer),
              pointer |-> pointer - 1]
    ELSE Panic

\* shift_diff_up: loops while there is a previous element.
RECURSIVE shift_diff_up(_, _, _, _, _)
shift_diff_up(T, O, N, diffs, pointer) ==
    IF pointer - 1 < 0 \/ pointer - 1 >= Len(diffs)
    THEN [tag |-> "ok", diffs |-> diffs, pointer |-> pointer]
    ELSE With(ShiftUpStep(T, O, N, diffs, pointer, diffs[pointer + 1], diffs[pointer]),
              LAMBDA r :
         IF IsPanic(r) THEN Panic
         ELSE IF r.tag = "break"
              THEN [tag |-> "ok", diffs |-> r.diffs, pointer |-> r.pointer]
              ELSE shift_diff_up(T, O, N, r.diffs, r.pointer))

\* The rotation of shift_diff_down once prefix_len is known to be positive:
\* the previous Equal grows down by it or a new Equal is inserted before the
\* edit (p1 is the pointer afterwards), the edit shifts down and the next
\* Equal shrinks; emptied, it is removed.
RotateDown(diffs, pointer, p1, prefix_len, new_equal) ==
    LET GrowDown(r) == grow_down(r, prefix_len)
        ShiftDown(r) == shift_down(r, prefix_len)
        ShrinkFront(r) == shrink_front(r, prefix_len)
    IN  With(IF p1 = pointer
             THEN VecSet(diffs, pointer - 1, for_each(diffs[pointer], GrowDown))
             ELSE VecInsert(diffs, pointer, new_equal), LAMBDA d1 :
        With(VecSet(d1, p1, for_each(d1[p1 + 1], ShiftDown)), LAMBDA d2 :
        With(VecSet(d2, p1 + 1, for_each(d2[p1 + 2], ShrinkFront)), LAMBDA d3 :
            IF ~NoUnderflow(d3[p1 + 2]) THEN Panic
            ELSE IF inner(d3[p1 + 2]).len = 0
                 THEN [tag |-> "cont", diffs |-> VecRemove(d3, p1 + 1), pointer |-> p1]
                 ELSE [tag |-> "cont", diffs |-> d3, pointer |-> p1])))

\* The arm of shift_diff_down for an edit before an Equal.
ShiftDownEqual(diffs, pointer, prefix_len, new_equal) ==
    IF prefix_len = SliceFailed THEN Panic
    ELSE IF prefix_len # 0
    THEN RotateDown(diffs, pointer,
                    IF pointer - 1 >= 0 /\ diffs[pointer].kind = "Equal"
                    THEN pointer ELSE pointer + 1,
                    prefix_len, new_equal)
    ELSE IF inner(diffs[pointer + 2]).len = 0
         THEN [tag |-> "cont", diffs |-> VecRemove(diffs, pointer + 1), pointer |-> pointer]
         ELSE [tag |-> "break", diffs |-> diffs, pointer |-> pointer]

\* One turn of the loop of shift_diff_down at `pointer` (0-based).
ShiftDownStep(T, O, N, diffs, pointer, this, next) ==
    IF this.kind = "Insert" /\ next.kind = "Equal"
    THEN With(Range_common_prefix_len(T, N, this.r2, O, next.r1), LAMBDA prefix_len :
         ShiftDownEqual(diffs, pointer, prefix_len,
                        Equal(slice(next.r1, 0, prefix_len), slice(this.r2, 0, prefix_len))))
    ELSE IF this.kind = "Delete" /\ next.kind = "Equal"
    THEN With(Range_common_prefix_len(T, O, this.r1, N, next.r2), LAMBDA prefix_len :
         ShiftDownEqual(diffs, pointer, prefix_len,
                        Equal(slice(this.r1, 0, prefix_len), slice(next.r2, 0, prefix_len))))
    ELSE IF \/ (this.kind = "Insert" /\ next.kind = "Delete")
            \/ (this.kind = "Delete" /\ next.kind = "Insert")
    THEN [tag |-> "cont", diffs |-> VecSwap(diffs, pointer, pointer + 1),
          pointer |-> pointer + 1]
    ELSE IF this.kind \in {"Insert", "Delete"} /\ next.kind = this.kind
    THEN LET GrowDown(r) == grow_down(r, inner(next).len)
         IN  [tag |-> "cont",
              diffs |-> VecRemove(VecSet(diffs, pointer, for_each(this, GrowDown)),
                                  pointer + 1),
              pointer |-> pointer]
    ELSE Panic

\* shift_diff_down: loops while there is a next element.  fuel bounds the
\* turns of the loop; running out of it is a loop that does not end.
RECURSIVE shift_diff_down(_, _, _, _, _, _)
shift_diff_down(T, O, N, diffs, pointer, fuel) ==
    IF pointer + 1 >= Len(diffs)
    THEN [tag |-> "ok", diffs |-> diffs, pointer |-> pointer]
    ELSE IF fuel = 0 THEN Panic
    ELSE With(ShiftDownStep(T, O, N, diffs, pointer, diffs[pointer + 1], diffs[pointer + 2]),
              LAMBDA r :
         IF IsPanic(r) THEN Panic
         ELSE IF r.tag = "break"
              THEN [tag |-> "ok", diffs |-> r.diffs, pointer |-> r.pointer]
              ELSE shift_diff_down(T, O, N, r.diffs, r.pointer, fuel - 1))

\* The turns a loop of compact may take before it is held not to end
LoopFuel(O, N) == 4 * (Len(O) + Len(N)) + 8

\* shift_diff_up, then shift_diff_down from where it stopped
ShiftUpDown(T, O, N, diffs, pointer) ==
    With(shift_diff_up(T, O, N, diffs, pointer), LAMBDA up :
         IF IsPanic(up) THEN Panic
         ELSE shift_diff_down(T, O, N, up.diffs, up.pointer, LoopFuel(O, N)))

\* One pass of compact over the edits of `kind`, from `pointer` on.
RECURSIVE CompactPass(_, _, _, _, _, _, _)
CompactPass(T, O, N, diffs, pointer, kind, fuel) ==
    IF pointer >= Len(diffs) THEN [tag |-> "ok", diffs |-> diffs]
    ELSE IF fuel = 0 THEN Panic
    ELSE IF diffs[pointer + 1].kind = kind
    THEN With(ShiftUpDown(T, O, N, diffs, pointer), LAMBDA down :
         IF IsPanic(down) THEN Panic
         ELSE CompactPass(T, O, N, down.diffs, down.pointer + 1, kind, fuel - 1))
    ELSE CompactPass(T, O, N, diffs, pointer + 1, kind, fuel - 1)

\* compact: first the Deletes, then the Inserts.
compact(T, O, N, diffs) ==
    With(CompactPass(T, O, N, diffs, 0, "Delete", LoopFuel(O, N)), LAMBDA dels :
         IF IsPanic(dels) THEN Panic
         ELSE CompactPass(T, O, N, dels.diffs, 0, "Insert", LoopFuel(O, N)))

\* Diff::from: the public segment is a slice; an Equal is its old-side slice.
Diff_from(O, N, d) ==
    [kind |-> d.kind,
     slice |-> IF d.kind = "Insert" THEN as_slice(N, d.r2) ELSE as_slice(O, d.r1)]

\* myers::diff followed by compact, as diff_slice and diff_lines run them.
myers_compact(O, N) ==
    With(do_diff(O, N), LAMBDA solution :
         IF IsPanic(solution) THEN Panic
         ELSE With(compact("slice", O, N, solution.solution), LAMBDA c :
              IF IsPanic(c) THEN Panic ELSE [tag |-> "ok", solution |-> c.diffs]))

\* diff_slice
diff_slice(O, N) ==
    With(myers_compact(O, N), LAMBDA r :
         IF IsPanic(r) THEN Panic
         ELSE [tag |-> "ok",
               solution |-> [i \in 1..Len(r.solution) |-> Diff_from(O, N, r.solution[i])]])

\* ------------------------------------------------------------ utils.rs

\* The newline character
NL == "\n"

\* Option<T>: None is the empty sequence, Some(x) the sequence of x alone.
None == <<>>

Some(x) == <<x>>

\* find that stops at a carriage return as at a newline
find_newline_or_return(text) ==
    IF \E i \in 1..Len(text) : text[i] \in {NL, "\r"}
    THEN (CHOOSE i \in 1..Len(text) :
             text[i] \in {NL, "\r"} /\ \A j \in 1..(i - 1) : text[j] \notin {NL, "\r"}) - 1
    ELSE -1

\* str::find('\n'): the 0-based index of the first newline, -1 when there is none.
find_newline(text) ==
    IF \E i \in 1..Len(text) : text[i] = NL
    THEN (CHOOSE i \in 1..Len(text) : text[i] = NL /\ \A j \in 1..(i - 1) : text[j] # NL) - 1
    ELSE -1

\* LineIter: the lines of a text, each with its newline; collected.
RECURSIVE LineIter(_)
LineIter(text) ==
    IF Len(text) = 0 THEN <<>>
    ELSE LET idx == find_newline(text)
             end == IF idx >= 0 THEN idx + 1 ELSE Len(text)
         IN  <<SubSeq(text, 1, end)>> \o LineIter(SubSeq(text, end + 1, Len(text)))

\* String concatenation of a sequence of lines (collect into a String).
RECURSIVE Concat(_)
Concat(ls) == IF Len(ls) = 0 THEN <<>> ELSE Head(ls) \o Concat(Tail(ls))

\* Classifier::default(): unique_ids is the sequence of the records seen, the
\* id of a record is its 0-based position.
Classifier_default == [next_id |-> 0, unique_ids |-> <<>>]

\* classify that gives every record an id of its own
classify_afresh(c, record) ==
    [c |-> [next_id |-> c.next_id + 1, unique_ids |-> Append(c.unique_ids, record)],
     id |-> c.next_id]

\* Classifier::classify: the classifier afterwards and the id.
classify(c, record) ==
    IF \E i \in 1..Len(c.unique_ids) : c.unique_ids[i] = record
    THEN [c |-> c, id |-> (CHOOSE i \in 1..Len(c.unique_ids) : c.unique_ids[i] = record) - 1]
    ELSE [c |-> [next_id |-> c.next_id + 1, unique_ids |-> Append(c.unique_ids, record)],
          id |-> c.next_id]

\* Classifier::classify_lines over lines already split: the ids, in order.
RECURSIVE classify_ids(_, _)
classify_ids(c, ls) ==
    IF Len(ls) = 0 THEN [c |-> c, ids |-> <<>>]
    ELSE LET one == classify(c, Head(ls))
             rest == classify_ids(one.c, Tail(ls))
         IN  [c |-> rest.c, ids |-> <<one.id>> \o rest.ids]

\* Classifier::classify_lines
classify_lines(c, text) ==
    LET ls == LineIter(text)
        r == classify_ids(c, ls)
    IN  [c |-> r.c, lines |-> ls, ids |-> r.ids]

\* The map of to_str over the solution of the byte diff
RECURSIVE ToStrLoop(_, _, _, _, _)
ToStrNext(old_text, new_text, solution, i, acc, d) ==
    IF IsPanic(d) THEN Panic
    ELSE ToStrLoop(old_text, new_text, solution, i + 1, Append(acc, d.range))

ToStrLoop(old_text, new_text, solution, i, acc) ==
    IF i > Len(solution) THEN [tag |-> "ok", solution |-> acc]
    ELSE ToStrNext(old_text, new_text, solution, i, acc,
                   to_str(solution[i], old_text, new_text))

\* What diff has after the map of to_str: the realigned solution
realign(old_text, new_text) ==
    With(do_diff(old_text, new_text), LAMBDA bytes :
         IF IsPanic(bytes) THEN Panic
         ELSE ToStrLoop(old_text, new_text, bytes.solution, 1, <<>>))

\* Diff::from over a str solution: as_slice of a str panics off a boundary
\* and out of bounds.
DiffsFrom(old_text, new_text, ranges) ==
    IF \E i \in 1..Len(ranges) :
           ~str_index(IF ranges[i].kind = "Insert" THEN new_text ELSE old_text,
                      inner(ranges[i]))
    THEN Panic
    ELSE [tag |-> "ok", ranges |-> ranges,
          solution |-> [i \in 1..Len(ranges) |-> Diff_from(old_text, new_text, ranges[i])]]

\* diff, from the realigned solution on: compact, then Diff::from
DiffCompacted(old_text, new_text, c) ==
    IF IsPanic(c) THEN Panic ELSE DiffsFrom(old_text, new_text, c.diffs)

DiffRealigned(old_text, new_text, realigned) ==
    IF IsPanic(realigned) THEN Panic
    ELSE DiffCompacted(old_text, new_text,
                       compact("str", old_text, new_text, realigned.solution))

\* diff of two strs
diff(old_text, new_text) == DiffRealigned(old_text, new_text, realign(old_text, new_text))

\* ------------------------------------------------ diff/mod.rs, hunk assembly

\* EditRange::new; a range is start..end
EditRange(os, oe, ns, ne) ==
    [old |-> [start |-> os, end |-> oe], new |-> [start |-> ns, end |-> ne]]

\* build_edit_script: the loop over solution[i..], with the script being
\* built (an Option) and the two indices.
RECURSIVE BuildLoop(_, _, _, _, _, _)
BuildLoop(solution, i, idx_a, idx_b, edit_script, script) ==
    IF i > Len(solution)
    THEN IF script # None THEN Append(edit_script, script[1]) ELSE edit_script
    ELSE LET d == solution[i]
         IN  IF d.kind = "Equal"
             THEN BuildLoop(solution, i + 1, idx_a + d.r1.len, idx_b + d.r2.len,
                            IF script # None THEN Append(edit_script, script[1]) ELSE edit_script,
                            None)
             ELSE IF d.kind = "Delete"
             THEN BuildLoop(solution, i + 1, idx_a + d.r1.len, idx_b, edit_script,
                            IF script # None
                            THEN Some([script[1] EXCEPT !.old.end = @ + d.r1.len])
                            ELSE Some(EditRange(idx_a, idx_a + d.r1.len, idx_b, idx_b)))
             ELSE BuildLoop(solution, i + 1, idx_a, idx_b + d.r2.len, edit_script,
                            IF script # None
                            THEN Some([script[1] EXCEPT !.new.end = @ + d.r2.len])
                            ELSE Some(EditRange(idx_a, idx_a, idx_b, idx_b + d.r2.len)))

\* build_edit_script
build_edit_script(solution) == BuildLoop(solution, 1, 0, 0, <<>>, None)

\* Line::Context, Line::Delete, Line::Insert
Line(kind, line) == [kind |-> kind, line |-> line]

\* A HunkRange whose start is 0 whenever it has no lines
HunkRange_zero_start(start, len) == [start |-> IF len = 0 THEN 0 ELSE start, len |-> len]

\* HunkRange::new
HunkRange(start, len) == [start |-> start, len |-> len]

\* hunk_lines_count: (old count, new count)
hunk_lines_count(lines) ==
    <<Cardinality({i \in 1..Len(lines) : lines[i].kind \in {"Context", "Delete"}}),
      Cardinality({i \in 1..Len(lines) : lines[i].kind \in {"Context", "Insert"}})>>

\* Hunk::new: asserts that the ranges' lengths are the counted lines.
Hunk_new(old_range, new_range, function_context, lines) ==
    LET count == hunk_lines_count(lines)
    IN  IF old_range.len # count[1] \/ new_range.len # count[2] THEN Panic
        ELSE [tag |-> "ok", old_range |-> old_range, new_range |-> new_range,
              function_context |-> function_context, lines |-> lines]

\* Patch::new
Patch_new(original, modified, hunks) ==
    [original |-> original, modified |-> modified, hunks |-> hunks]

\* slice.get(start..end) flattened: the elements, or none when out of range.
GetRange(v, start, end) ==
    IF start <= end /\ end <= Len(v) THEN SubSeq(v, start + 1, end) ELSE <<>>

\* The lines of ls as hunk lines of one kind
LinesOf(kind, ls) == [i \in 1..Len(ls) |-> Line(kind, ls[i])]

\* calc_end of to_patch
calc_end(context_len, text1_len, text2_len, script1_end, script2_end) ==
    LET post_context_len ==
            Min(context_len, Min(saturating_sub(text1_len, script1_end),
                                 saturating_sub(text2_len, script2_end)))
    IN  <<script1_end + post_context_len, script2_end + post_context_len>>

\* The lines between two merged edit ranges: the zip of the two index ranges,
\* a line pushed for each index the new text has.
BetweenContext(b_text, script, s) ==
    LET n == Min(Max(s.old.start - script.old.end, 0), Max(s.new.start - script.new.end, 0))
        idx == SelectSeq([k \in 1..n |-> script.new.end + k - 1], LAMBDA i2 : i2 < Len(b_text))
    IN  [k \in 1..Len(idx) |-> Line("Context", b_text[idx[k] + 1])]

\* The inner loop of to_patch: pushes the edit range idx and merges the next
\* ones into the hunk while their context reaches it.
RECURSIVE MergeLoop(_, _, _, _, _, _, _, _)
MergeLoop(a_text, b_text, edit_script, context_len, idx, lines0, end1, end2) ==
    LET script == edit_script[idx + 1]
        lines == lines0 \o LinesOf("Delete", GetRange(a_text, script.old.start, script.old.end))
                        \o LinesOf("Insert", GetRange(b_text, script.new.start, script.new.end))
        stop == [tag |-> "ok", idx |-> idx, lines |-> lines, end1 |-> end1, end2 |-> end2]
    IN  IF idx + 1 < Len(edit_script)
        THEN LET s == edit_script[idx + 2]
             IN  IF Len(a_text) - 1 < 0 THEN Panic
                 ELSE IF saturating_sub(Min(s.old.start, Len(a_text) - 1), context_len) < end1
                 THEN LET e == calc_end(context_len, Len(a_text), Len(b_text),
                                        s.old.end, s.new.end)
                      IN  MergeLoop(a_text, b_text, edit_script, context_len, idx + 1,
                                    lines \o BetweenContext(b_text, script, s), e[1], e[2])
                 ELSE stop
        ELSE stop

\* The outer loop of to_patch: one hunk per turn, from edit range idx on.
RECURSIVE HunkLoop(_, _, _, _, _, _)
HunkLoop(a_text, b_text, edit_script, context_len, idx, hunks) ==
    IF idx >= Len(edit_script) THEN [tag |-> "ok", hunks |-> hunks]
    ELSE LET script == edit_script[idx + 1]
             start1 == saturating_sub(script.old.start, context_len)
             start2 == saturating_sub(script.new.start, context_len)
             e == calc_end(context_len, Len(a_text), Len(b_text),
                           script.old.end, script.new.end)
             pre == LinesOf("Context", GetRange(b_text, start2, script.new.start))
             m == MergeLoop(a_text, b_text, edit_script, context_len, idx, pre, e[1], e[2])
         IN  IF IsPanic(m) THEN Panic
             ELSE LET last == edit_script[m.idx + 1]
                      lines == m.lines \o LinesOf("Context", GetRange(b_text, last.new.end, m.end2))
                      len1 == m.end1 - start1
                      len2 == m.end2 - start2
                      old_range == HunkRange(IF len1 > 0 THEN start1 + 1 ELSE start1, len1)
                      new_range == HunkRange(IF len2 > 0 THEN start2 + 1 ELSE start2, len2)
                      hunk == Hunk_new(old_range, new_range, None, lines)
                  IN  IF len1 < 0 \/ len2 < 0 \/ IsPanic(hunk) THEN Panic
                      ELSE HunkLoop(a_text, b_text, edit_script, context_len, m.idx + 1,
                                    Append(hunks, [old_range |-> hunk.old_range,
                                                   new_range |-> hunk.new_range,
                                                   function_context |-> hunk.function_context,
                                                   lines |-> hunk.lines]))

\* DiffLines::to_patch
to_patch(a_text, b_text, edit_script, context_len) ==
    LET r == HunkLoop(a_text, b_text, edit_script, context_len, 0, <<>>)
    IN  IF IsPanic(r) THEN Panic
        ELSE [tag |-> "ok", patch |-> Patch_new(None, None, r.hunks)]

\* The file names create_patch gives a patch
original_name == <<"o", "r", "i", "g", "i", "n", "a", "l">>

modified_name == <<"m", "o", "d", "i", "f", "i", "e", "d">>

\* create_patch / DiffOptions::create_patch: both texts are classified by one
\* classifier, the ids diffed and compacted, the edit script assembled into
\* hunks and the file names set to "original" and "modified".
create_patch(original, modified, context_len) ==
    LET a == classify_lines(Classifier_default, original)
        b == classify_lines(a.c, modified)
        solution == myers_compact(a.ids, b.ids)
    IN  IF IsPanic(solution) THEN Panic
        ELSE LET p == to_patch(a.lines, b.lines, build_edit_script(solution.solution),
                               context_len)
             IN  IF IsPanic(p) THEN Panic
                 ELSE [tag |-> "ok",
                       patch |-> Patch_new(Some(original_name), Some(modified_name),
                                           p.patch.hunks)]

\* ------------------------------------------------------------ apply.rs

\* ImageLine::Unpatched
Unpatched(line) == [patched |-> FALSE, line |-> line]

\* ImageLine::Patched
Patched(line) == [patched |-> TRUE, line |-> line]

\* The image a base text starts as: every line Unpatched.
ImageOf(base_image) ==
    LET ls == LineIter(base_image) IN [i \in 1..Len(ls) |-> Unpatched(ls[i])]

\* image.into_iter().map(ImageLine::into_inner).collect()
ImageText(image) == Concat([i \in 1..Len(image) |-> image[i].line])

\* pre_context_line_count
RECURSIVE pre_context_line_count(_)
pre_context_line_count(lines) ==
    IF Len(lines) = 0 \/ Head(lines).kind # "Context" THEN 0
    ELSE 1 + pre_context_line_count(Tail(lines))

\* post_context_line_count
RECURSIVE post_context_line_count(_)
post_context_line_count(lines) ==
    IF Len(lines) = 0 \/ lines[Len(lines)].kind # "Context" THEN 0
    ELSE 1 + post_context_line_count(SubSeq(lines, 1, Len(lines) - 1))

\* pre_image: the Context and Delete lines
pre_image(lines) ==
    LET kept == SelectSeq(lines, LAMBDA l : l.kind \in {"Context", "Delete"})
    IN  [i \in 1..Len(kept) |-> kept[i].line]

\* post_image: the Context and Insert lines
post_image(lines) ==
    LET kept == SelectSeq(lines, LAMBDA l : l.kind \in {"Context", "Insert"})
    IN  [i \in 1..Len(kept) |-> kept[i].line]

\* pre_image_line_count
pre_image_line_count(lines) == Len(pre_image(lines))

\* len.checked_sub(fuzzy).unwrap_or(0)
checked_sub_or_0(len, fuzzy) == IF len >= fuzzy THEN len - fuzzy ELSE 0

\* match_fragment without the test for lines already patched
match_fragment_unguarded(image, lines, pos, fuzzy) ==
    LET len == pre_image_line_count(lines)
        begin == pos + fuzzy
        end == pos + checked_sub_or_0(len, fuzzy)
    IN  IF ~(begin <= end /\ end <= Len(image)) THEN [tag |-> "ok", matched |-> FALSE]
        ELSE IF ~(fuzzy <= len - fuzzy /\ len - fuzzy <= Len(lines)) THEN Panic
        ELSE [tag |-> "ok",
              matched |-> pre_image(SubSeq(lines, fuzzy + 1, len - fuzzy))
                          = [i \in 1..(end - begin) |-> image[begin + i].line]]

\* match_fragment: the hunk's lines against the image at pos, fuzzy lines
\* dropped at both ends.
match_fragment(image, lines, pos, fuzzy) ==
    LET len == pre_image_line_count(lines)
        begin == pos + fuzzy
        end == pos + checked_sub_or_0(len, fuzzy)
    IN  IF ~(begin <= end /\ end <= Len(image)) THEN [tag |-> "ok", matched |-> FALSE]
        ELSE IF \E i \in (begin + 1)..end : image[i].patched
        THEN [tag |-> "ok", matched |-> FALSE]
        ELSE IF ~(fuzzy <= len - fuzzy /\ len - fuzzy <= Len(lines)) THEN Panic
        ELSE [tag |-> "ok",
              matched |-> pre_image(SubSeq(lines, fuzzy + 1, len - fuzzy))
                          = [i \in 1..(end - begin) |-> image[begin + i].line]]

\* Interleave: alternately from a and from b, a first; when one is exhausted
\* the other is drained.
RECURSIVE interleave(_, _, _)
interleave(a, b, flag) ==
    IF Len(a) = 0 /\ Len(b) = 0 THEN <<>>
    ELSE IF (~flag /\ Len(a) > 0) \/ Len(b) = 0
    THEN <<Head(a)>> \o interleave(Tail(a), b, ~flag)
    ELSE <<Head(b)>> \o interleave(a, Tail(b), ~flag)

\* The positions from pos outward, the higher one of each pair first
SearchOrder_forward_first(pos, image_len) ==
    LET backward == [i \in 1..pos |-> pos - i]
        forward == [i \in 1..Max(image_len - (pos + 1), 0) |-> pos + i]
    IN  <<pos>> \o interleave(forward, backward, FALSE)

\* The positions find_position tries, in order: pos, then backward and
\* forward from it in turn.
SearchOrder(pos, image_len) ==
    LET backward == [i \in 1..pos |-> pos - i]
        forward == [i \in 1..Max(image_len - (pos + 1), 0) |-> pos + i]
    IN  <<pos>> \o interleave(backward, forward, FALSE)

\* The loop of find_position over the positions left at one fuzz, then the
\* next fuzz.
RECURSIVE FindLoop(_, _, _, _, _, _)
FindLoop(image, hunk, max_fuzzy, fuzzy, order, i) ==
    IF fuzzy > max_fuzzy THEN [tag |-> "none"]
    ELSE IF i > Len(order) THEN FindLoop(image, hunk, max_fuzzy, fuzzy + 1, order, 1)
    ELSE LET m == match_fragment(image, hunk.lines, order[i], fuzzy)
         IN  IF IsPanic(m) THEN Panic
             ELSE IF m.matched THEN [tag |-> "some", pos |-> order[i], fuzzy |-> fuzzy]
             ELSE FindLoop(image, hunk, max_fuzzy, fuzzy, order, i + 1)

\* find_position
find_position(image, hunk, max_fuzzy) ==
    LET pos == saturating_sub(hunk.new_range.start, 1)
    IN  FindLoop(image, hunk, max_fuzzy, 0, SearchOrder(pos, Len(image)), 1)

\* skip_last that drops nothing
skip_last_nothing(items, count) == items

\* skip_last: all but the last count items
skip_last(items, count) == SubSeq(items, 1, Len(items) - count)

\* Iterator::skip
skip(items, n) == SubSeq(items, n + 1, Len(items))

\* Vec::splice of begin..end by the items
splice(v, begin, end, items) ==
    SubSeq(v, 1, begin) \o items \o SubSeq(v, end + 1, Len(v))

\* apply_hunk: "ok" with the image afterwards and where it was spliced,
\* "err" when no position matches.
apply_hunk(image, hunk, options_max_fuzzy) ==
    LET max_fuzzy == Min(Min(pre_context_line_count(hunk.lines),
                             post_context_line_count(hunk.lines)), options_max_fuzzy)
        found == find_position(image, hunk, max_fuzzy)
    IN  IF IsPanic(found) THEN Panic
        ELSE IF found.tag = "none" THEN [tag |-> "err"]
        ELSE LET begin == found.pos + found.fuzzy
                 end == found.pos
                        + checked_sub_or_0(pre_image_line_count(hunk.lines), found.fuzzy)
                 new == skip_last(skip(post_image(hunk.lines), found.fuzzy), found.fuzzy)
             IN  IF ~(begin <= end /\ end <= Len(image)) THEN Panic
                 ELSE [tag |-> "ok", pos |-> found.pos, fuzzy |-> found.fuzzy,
                       begin |-> begin, end |-> end,
                       image |-> splice(image, begin, end,
                                        [i \in 1..Len(new) |-> Patched(new[i])])]

\* An early return that comes after the splice of the hunk's post-image at
\* the top of the image
apply_hunk_err_spliced(image, hunk) ==
    splice(image, 0, 0, [i \in 1..Len(post_image(hunk.lines)) |->
                            Patched(post_image(hunk.lines)[i])])

\* The image apply_hunk leaves behind when it returns Err: `ok_or(())?`
\* returns before image.splice is reached.
apply_hunk_err(image, hunk) == image

\* ------------------------------------------------------------ patch/mod.rs

\* NO_NEWLINE_AT_EOF
NO_NEWLINE_AT_EOF ==
    <<"\\", " ", "N", "o", " ", "n", "e", "w", "l", "i", "n", "e", " ", "a", "t", " ",
      "e", "n", "d", " ", "o", "f", " ", "f", "i", "l", "e">>

\* The NUL character, which a TLA+ string cannot hold, as a token of its own
NUL == "NUL"

\* ESCAPED_CHARS
ESCAPED_CHARS == {NL, "\t", NUL, "\r", "\"", "\\"}

\* The decimal digits, in order
Digits == <<"0", "1", "2", "3", "4", "5", "6", "7", "8", "9">>

\* Display of a usize: its decimal digits
RECURSIVE Decimal(_)
Decimal(n) ==
    IF n < 10 THEN <<Digits[n + 1]>> ELSE Decimal(n \div 10) \o <<Digits[(n % 10) + 1]>>

\* Filename::needs_to_be_escaped
needs_to_be_escaped(name) == \E i \in 1..Len(name) : name[i] \in ESCAPED_CHARS

\* Filename::fmt and Filename::write_into: quoted, each escaped character
\* after a backslash, when the name needs it; else as it is.
RECURSIVE EscapeChars(_)
EscapeChars(name) ==
    IF Len(name) = 0 THEN <<>>
    ELSE (IF Head(name) \in ESCAPED_CHARS THEN <<"\\", Head(name)>> ELSE <<Head(name)>>)
         \o EscapeChars(Tail(name))

Filename_fmt(name) ==
    IF needs_to_be_escaped(name) THEN <<"\"">> \o EscapeChars(name) \o <<"\"">> ELSE name

\* Display for HunkRange: start, and the length when it is not 1
HunkRange_fmt(r) ==
    Decimal(r.start) \o (IF r.len # 1 THEN <<",">> \o Decimal(r.len) ELSE <<>>)

\* ------------------------------------------------------------ patch/format.rs

\* LineDisplay: the sign and the line, a Context line that is only a newline
\* without its sign; a line with no newline is followed by one and by the
\* marker line.
LineDisplay_fmt(line) ==
    (IF line.kind = "Context" /\ line.line = <<NL>> THEN line.line
     ELSE <<CASE line.kind = "Context" -> " "
              [] line.kind = "Delete" -> "-"
              [] line.kind = "Insert" -> "+">> \o line.line)
    \o (IF Len(line.line) = 0 \/ line.line[Len(line.line)] # NL
        THEN <<NL>> \o NO_NEWLINE_AT_EOF \o <<NL>>
        ELSE <<>>)

\* The lines of a hunk, formatted one after the other
RECURSIVE LinesDisplay_fmt(_)
LinesDisplay_fmt(lines) ==
    IF Len(lines) = 0 THEN <<>>
    ELSE LineDisplay_fmt(Head(lines)) \o LinesDisplay_fmt(Tail(lines))

\* HunkDisplay: the header with the two ranges, the function context after
\* two spaces when there is one, a newline, then the lines.
HunkDisplay_fmt(hunk) ==
    <<"@", "@", " ", "-">> \o HunkRange_fmt(hunk.old_range)
    \o <<" ", "+">> \o HunkRange_fmt(hunk.new_range) \o <<" ", "@", "@">>
    \o (IF hunk.function_context # None
        THEN <<" ">> \o <<" ">> \o hunk.function_context[1]
        ELSE <<>>)
    \o <<NL>>
    \o LinesDisplay_fmt(hunk.lines)

\* The hunks of a patch, formatted one after the other
RECURSIVE HunksDisplay_fmt(_)
HunksDisplay_fmt(hunks) ==
    IF Len(hunks) = 0 THEN <<>>
    ELSE HunkDisplay_fmt(Head(hunks)) \o HunksDisplay_fmt(Tail(hunks))

\* PatchDisplay (Patch::to_string and Patch::to_bytes, without colour): the
\* file name lines that are set, then the hunks.
PatchDisplay_fmt(p) ==
    (IF p.original # None
     THEN <<"-", "-", "-", " ">> \o Filename_fmt(p.original[1]) \o <<NL>> ELSE <<>>)
    \o (IF p.modified # None
        THEN <<"+", "+", "+", " ">> \o Filename_fmt(p.modified[1]) \o <<NL>> ELSE <<>>)
    \o HunksDisplay_fmt(p.hunks)

\* ------------------------------------------------------------ patch/parse.rs

\* ParsePatchError::new
ParseErr(msg) == [tag |-> "err", msg |-> msg]

\* Text::starts_with
starts_with(s, prefix) == Len(s) >= Len(prefix) /\ SubSeq(s, 1, Len(prefix)) = prefix

\* Text::strip_prefix
strip_prefix(s, prefix) ==
    IF starts_with(s, prefix) THEN Some(SubSeq(s, Len(prefix) + 1, Len(s))) ELSE None

\* Text::strip_suffix
strip_suffix(s, suffix) ==
    IF Len(s) >= Len(suffix) /\ SubSeq(s, Len(s) - Len(suffix) + 1, Len(s)) = suffix
    THEN Some(SubSeq(s, 1, Len(s) - Len(suffix)))
    ELSE None

\* Text::find: the first place of the needle in s, 0 when there is none
RECURSIVE FindFrom(_, _, _)
FindFrom(s, needle, i) ==
    IF i + Len(needle) - 1 > Len(s) THEN 0
    ELSE IF SubSeq(s, i, i + Len(needle) - 1) = needle THEN i
    ELSE FindFrom(s, needle, i + 1)

\* Text::split_at_exclusive: what is before the first needle and what is after
SplitAt(s, needle, i) ==
    IF i = 0 THEN None
    ELSE Some(<<SubSeq(s, 1, i - 1), SubSeq(s, i + Len(needle), Len(s))>>)

split_at_exclusive(s, needle) == SplitAt(s, needle, FindFrom(s, needle, 1))

\* Text::parse for usize: decimal digits, after an optional plus sign
IsDigit(c) == \E d \in 1..10 : Digits[d] = c

DigitValue(c) == (CHOOSE d \in 1..10 : Digits[d] = c) - 1

RECURSIVE DecimalValue(_)
DecimalValue(s) ==
    IF Len(s) = 0 THEN 0
    ELSE DecimalValue(SubSeq(s, 1, Len(s) - 1)) * 10 + DigitValue(s[Len(s)])

ParseDigits(d) ==
    IF Len(d) > 0 /\ \A i \in 1..Len(d) : IsDigit(d[i]) THEN Some(DecimalValue(d)) ELSE None

parse_usize(s) == ParseDigits(IF starts_with(s, <<"+">>) THEN Tail(s) ELSE s)

\* skip_header_preamble: the place of the first line that is a file name
\* line or a hunk header
RECURSIVE skip_header_preamble(_, _)
skip_header_preamble(input, i) ==
    IF i > Len(input) THEN i
    ELSE IF \/ starts_with(input[i], <<"-", "-", "-", " ">>)
            \/ starts_with(input[i], <<"+", "+", "+", " ">>)
            \/ starts_with(input[i], <<"@", "@", " ">>)
         THEN i
         ELSE skip_header_preamble(input, i + 1)

\* is_quoted
IsQuotedEnd(s) == IF s = None THEN None ELSE strip_suffix(s[1], <<"\"">>)

is_quoted(s) == IsQuotedEnd(strip_prefix(s, <<"\"">>))

\* unescaped_filename
unescaped_filename(filename) ==
    IF \E i \in 1..Len(filename) : filename[i] \in ESCAPED_CHARS
    THEN ParseErr("invalid char in unquoted filename")
    ELSE [tag |-> "ok", name |-> filename]

\* escaped_filename: the characters an escape letter stands for
EscapeLetters == {"n", "t", "0", "r", "\"", "\\"}

\* The escape that keeps the letter after the backslash as it is
Unescape_keeps_letter(c) == c

Unescape(c) ==
    CASE c = "n" -> NL
      [] c = "t" -> "\t"
      [] c = "0" -> NUL
      [] c = "r" -> "\r"
      [] c = "\"" -> "\""
      [] c = "\\" -> "\\"

RECURSIVE EscapedLoop(_, _)
EscapedLoop(chars, filename) ==
    IF Len(chars) = 0 THEN [tag |-> "ok", name |-> filename]
    ELSE IF Head(chars) = "\\"
         THEN IF Len(chars) < 2 THEN ParseErr("expected escaped character")
              ELSE IF chars[2] \in EscapeLetters
                   THEN EscapedLoop(SubSeq(chars, 3, Len(chars)),
                                    Append(filename, Unescape(chars[2])))
                   ELSE ParseErr("invalid escaped character")
         ELSE IF Head(chars) \in ESCAPED_CHARS
              THEN ParseErr("invalid unescaped character")
              ELSE EscapedLoop(Tail(chars), Append(filename, Head(chars)))

escaped_filename(escaped) == EscapedLoop(escaped, <<>>)

\* parse_filename
FilenameOf(filename, quoted) ==
    IF quoted # None THEN escaped_filename(quoted[1]) ELSE unescaped_filename(filename)

FilenameField(tab, newline) ==
    IF tab # None THEN Some(tab[1][1])
    ELSE IF newline # None THEN Some(newline[1][1])
    ELSE None

FilenameOfField(field) ==
    IF field = None THEN ParseErr("filename unterminated")
    ELSE FilenameOf(field[1], is_quoted(field[1]))

FilenameOfLine(line) ==
    IF line = None THEN ParseErr("unable to parse filename")
    ELSE FilenameOfField(FilenameField(split_at_exclusive(line[1], <<"\t">>),
                                       split_at_exclusive(line[1], <<NL>>)))

parse_filename(prefix, line) == FilenameOfLine(strip_prefix(line, prefix))

\* patch_header: the file names of the header lines and the place after them
RECURSIVE FilenameLoop(_, _, _, _)
FilenameLoop(input, i, filename1, filename2) ==
    IF i > Len(input)
    THEN [tag |-> "ok", i |-> i, filename1 |-> filename1, filename2 |-> filename2]
    ELSE IF starts_with(input[i], <<"-", "-", "-", " ">>)
    THEN IF filename1 # None THEN ParseErr("multiple '---' lines")
         ELSE With(parse_filename(<<"-", "-", "-", " ">>, input[i]),
                   LAMBDA f : IF f.tag = "err" THEN f
                              ELSE FilenameLoop(input, i + 1, Some(f.name), filename2))
    ELSE IF starts_with(input[i], <<"+", "+", "+", " ">>)
    THEN IF filename2 # None THEN ParseErr("multiple '+++' lines")
         ELSE With(parse_filename(<<"+", "+", "+", " ">>, input[i]),
                   LAMBDA f : IF f.tag = "err" THEN f
                              ELSE FilenameLoop(input, i + 1, filename1, Some(f.name)))
    ELSE [tag |-> "ok", i |-> i, filename1 |-> filename1, filename2 |-> filename2]

patch_header(input, i) == FilenameLoop(input, skip_header_preamble(input, i), None, None)

\* range: "start,len", or "start" alone for a length of 1
RangeOf(start, len) ==
    IF start = None \/ len = None THEN ParseErr("can't parse range")
    ELSE [tag |-> "ok", range |-> HunkRange(start[1], len[1])]

RangeOfSplit(s, split) ==
    IF split # None THEN RangeOf(parse_usize(split[1][1]), parse_usize(split[1][2]))
    ELSE RangeOf(parse_usize(s), Some(1))

parse_range(s) == RangeOfSplit(s, split_at_exclusive(s, <<",">>))

\* hunk_header: the two ranges and the function context, which is what
\* follows " @@" less one leading space.
HeaderRange(s) == IF s = None THEN ParseErr("unable to parse hunk header") ELSE parse_range(s[1])

HeaderOf(range1, range2, function_context) ==
    IF range1.tag = "err" THEN range1
    ELSE IF range2.tag = "err" THEN range2
    ELSE [tag |-> "ok", range1 |-> range1.range, range2 |-> range2.range,
          function_context |-> function_context]

HeaderRanges(ranges, function_context) ==
    IF ranges = None THEN ParseErr("unable to parse hunk header")
    ELSE HeaderOf(HeaderRange(strip_prefix(ranges[1][1], <<"-">>)),
                  HeaderRange(strip_prefix(ranges[1][2], <<"+">>)),
                  function_context)

HeaderSplit(split) ==
    IF split = None THEN ParseErr("hunk header unterminated")
    ELSE HeaderRanges(split_at_exclusive(split[1][1], <<" ">>),
                      strip_prefix(split[1][2], <<" ">>))

HeaderBody(input) ==
    IF input = None THEN ParseErr("unable to parse hunk header")
    ELSE HeaderSplit(split_at_exclusive(input[1], <<" ", "@", "@">>))

hunk_header(input) == HeaderBody(strip_prefix(input, <<"@", "@", " ">>))

\* strip_newline that leaves the line as it is
strip_newline_keeps(s) == Some(s)

\* strip_newline
strip_newline(s) == strip_suffix(s, <<NL>>)

\* hunk_lines: the lines up to the next line that starts with "@" or to the
\* end of the input, and the place after them.
RECURSIVE HunkLinesLoop(_, _, _, _, _, _)
NoNewlineLine(input, i, lines, last_line, stripped, nc, nd, ni) ==
    IF stripped = None THEN ParseErr("missing newline")
    ELSE HunkLinesLoop(input, i + 1,
                       Append(SubSeq(lines, 1, Len(lines) - 1),
                              Line(last_line.kind, stripped[1])),
                       nc \/ last_line.kind = "Context",
                       nd \/ last_line.kind = "Delete",
                       ni \/ last_line.kind = "Insert")

HunkLinesLoop(input, i, lines, no_newline_context, no_newline_delete, no_newline_insert) ==
    IF i > Len(input) \/ starts_with(input[i], <<"@">>)
    THEN [tag |-> "ok", lines |-> lines, i |-> i]
    ELSE IF no_newline_context THEN ParseErr("expected end of hunk")
    ELSE IF starts_with(input[i], <<" ">>)
    THEN HunkLinesLoop(input, i + 1, Append(lines, Line("Context", Tail(input[i]))),
                       no_newline_context, no_newline_delete, no_newline_insert)
    ELSE IF starts_with(input[i], <<NL>>)
    THEN HunkLinesLoop(input, i + 1, Append(lines, Line("Context", input[i])),
                       no_newline_context, no_newline_delete, no_newline_insert)
    ELSE IF starts_with(input[i], <<"-">>)
    THEN IF no_newline_delete THEN ParseErr("expected no more deleted lines")
         ELSE HunkLinesLoop(input, i + 1, Append(lines, Line("Delete", Tail(input[i]))),
                            no_newline_context, no_newline_delete, no_newline_insert)
    ELSE IF starts_with(input[i], <<"+">>)
    THEN IF no_newline_insert THEN ParseErr("expected no more inserted lines")
         ELSE HunkLinesLoop(input, i + 1, Append(lines, Line("Insert", Tail(input[i]))),
                            no_newline_context, no_newline_delete, no_newline_insert)
    ELSE IF starts_with(input[i], NO_NEWLINE_AT_EOF)
    THEN IF Len(lines) = 0
         THEN ParseErr("unexpected 'No newline at end of file' line")
         ELSE NoNewlineLine(input, i, lines, lines[Len(lines)],
                            strip_newline(lines[Len(lines)].line),
                            no_newline_context, no_newline_delete, no_newline_insert)
    ELSE ParseErr("unexpected line in hunk body")

hunk_lines(input, i) == HunkLinesLoop(input, i, <<>>, FALSE, FALSE, FALSE)

\* hunk: a header and its lines, whose counts must be the header's lengths
ParsedHunk(i, hunk) ==
    IF IsPanic(hunk) THEN Panic
    ELSE [tag |-> "ok", i |-> i,
          hunk |-> [old_range |-> hunk.old_range, new_range |-> hunk.new_range,
                    function_context |-> hunk.function_context, lines |-> hunk.lines]]

\* The same without the check of the counts
HunkOf_unchecked(header, lines, count) ==
    ParsedHunk(lines.i, Hunk_new(header.range1, header.range2,
                                 header.function_context, lines.lines))

HunkOf(header, lines, count) ==
    IF count[1] # header.range1.len \/ count[2] # header.range2.len
    THEN ParseErr("Hunk header does not match hunk")
    ELSE ParsedHunk(lines.i, Hunk_new(header.range1, header.range2,
                                      header.function_context, lines.lines))

HunkBody(header, lines) ==
    IF lines.tag = "err" THEN lines
    ELSE HunkOf(header, lines, hunk_lines_count(lines.lines))

HunkAt(input, i, header) ==
    IF header.tag = "err" THEN header ELSE HunkBody(header, hunk_lines(input, i + 1))

parse_hunk(input, i) ==
    IF i > Len(input) THEN ParseErr("unexpected EOF")
    ELSE HunkAt(input, i, hunk_header(input[i]))

\* HunkRange::end
HunkRange_end(r) == r.start + r.len

\* The same accepting any order
verify_hunks_unchecked(hunks) == TRUE

\* verify_hunks_in_order
verify_hunks_in_order(hunks) ==
    \A w \in 1..(Len(hunks) - 1) :
        ~ \/ HunkRange_end(hunks[w].old_range) > hunks[w + 1].old_range.start
          \/ HunkRange_end(hunks[w].new_range) > hunks[w + 1].new_range.start

\* hunks: hunk after hunk to the end of the input, then the order check
RECURSIVE HunksLoop(_, _, _)
HunksNext(input, hunks, h) ==
    IF h.tag # "ok" THEN h ELSE HunksLoop(input, h.i, Append(hunks, h.hunk))

HunksLoop(input, i, hunks) ==
    IF i > Len(input)
    THEN IF ~verify_hunks_in_order(hunks) THEN ParseErr("Hunks not in order or overlap")
         ELSE [tag |-> "ok", hunks |-> hunks]
    ELSE HunksNext(input, hunks, parse_hunk(input, i))

parse_hunks(input, i) == HunksLoop(input, i, <<>>)

\* parse and parse_bytes: the header, then the hunks
ParseOf(header, hunks) ==
    IF hunks.tag # "ok" THEN hunks
    ELSE [tag |-> "ok", patch |-> Patch_new(header.filename1, header.filename2, hunks.hunks)]

ParseBody(input, header) ==
    IF header.tag = "err" THEN header ELSE ParseOf(header, parse_hunks(input, header.i))

parse(input) == ParseBody(LineIter(input), patch_header(LineIter(input), 1))

\* ------------------------------------------------------------ the program

\* The characters of the texts: a letter and the newline.
Chars == {"a", NL}

\* The texts diffed and patched: at most MaxLen characters.
Texts == SeqsUpTo(Chars, MaxLen)

\* The context lengths patches are made with; 3 is the default.
ContextLens == {0, 1, 3}

\* ApplyOptions::max_fuzzy as callers set it
MaxFuzzies == {0, 1, 2}

VARIABLES
    pc,             \* where the run is
    old,            \* the original text
    new,            \* the modified text
    solution,       \* what diff_slice or diff returned
    context_len,    \* the context length of the patch
    patch,          \* what create_patch returned, or the patch formatted
    text,           \* the patch on the wire
    producer,       \* who wrote the text on the wire, or the list handed to compact
    base_image,     \* the text the patch is applied to
    strict,         \* TRUE in apply, FALSE in apply_all
    options,        \* ApplyOptions of apply_all
    image,          \* the applier's image
    hunk_idx,       \* i of the loop over the hunks, 0-based
    failed_indices, \* apply_all's failed_indices
    attempts,       \* every call of apply_hunk so far: the hunk, the image before, the outcome
    result,         \* what the operation returned
    engine          \* the diff while it runs: the V arrays, calls and loop of Myers, the list and pointer of compact

vars == <<pc, old, new, solution, context_len, patch, text, producer, base_image, strict, options,
          image, hunk_idx, failed_indices, attempts, result, engine>>

\* The Myers engine at rest
NoFrame == <<>>

\* The applier at rest
ApplierIdle ==
    /\ base_image = <<>>
    /\ strict = FALSE
    /\ options = [max_fuzzy |-> 0]
    /\ image = <<>>
    /\ hunk_idx = 0
    /\ failed_indices = <<>>
    /\ attempts = <<>>

\* Two texts are given; nothing has run.
Init ==
    /\ pc = "start"
    /\ old \in Texts
    /\ new \in Texts
    /\ solution = <<>>
    /\ context_len = 0
    /\ patch = <<>>
    /\ text = <<>>
    /\ producer = "none"
    /\ result = <<>>
    /\ ApplierIdle
    /\ engine = NoFrame

\* diff_slice(old, new) over the lines of the two texts
DiffSlice ==
    /\ pc = "start"
    /\ solution' = diff_slice(LineIter(old), LineIter(new))
    /\ pc' = "diffed"
    /\ UNCHANGED <<old, new, context_len, patch, text, producer, base_image, strict, options, image,
                   hunk_idx, failed_indices, attempts, result>>
    /\ UNCHANGED engine

\* DiffOptions::create_patch(old, new) with a context length
CreatePatch ==
    /\ pc = "start"
    /\ \E c \in ContextLens :
          /\ context_len' = c
          /\ patch' = create_patch(old, new, c)
    /\ pc' = "patched"
    /\ UNCHANGED <<old, new, solution, text, producer, base_image, strict, options, image, hunk_idx,
                   failed_indices, attempts, result>>
    /\ UNCHANGED engine

\* The base images a patch is applied to: the original, the modified text,
\* and the original after one more line at its top.
BaseImages == {old, new, <<NL>> \o old}

\* apply(base_image, patch) up to its loop: the image is the base's lines.
Apply ==
    /\ pc = "patched"
    /\ ~IsPanic(patch)
    /\ \E b \in BaseImages :
          /\ base_image' = b
          /\ image' = ImageOf(b)
    /\ strict' = TRUE
    /\ options' = [max_fuzzy |-> 0]
    /\ hunk_idx' = 0
    /\ failed_indices' = <<>>
    /\ attempts' = <<>>
    /\ pc' = "apply"
    /\ UNCHANGED <<old, new, solution, context_len, patch, text, producer, result>>
    /\ UNCHANGED engine

\* apply_all(base_image, patch, options) up to its loop
ApplyAll ==
    /\ pc = "patched"
    /\ ~IsPanic(patch)
    /\ \E b \in BaseImages :
          /\ base_image' = b
          /\ image' = ImageOf(b)
    /\ strict' = FALSE
    /\ \E f \in MaxFuzzies : options' = [max_fuzzy |-> f]
    /\ hunk_idx' = 0
    /\ failed_indices' = <<>>
    /\ attempts' = <<>>
    /\ pc' = "apply"
    /\ UNCHANGED <<old, new, solution, context_len, patch, text, producer, result>>
    /\ UNCHANGED engine

\* The error carrying the 0-based index of the loop, as apply_all counts
ApplyError_zero_based(i) == [tag |-> "Err", index |-> i]

\* ApplyError(i + 1) of apply: the error of hunk i of the loop
ApplyError(i) == [tag |-> "Err", index |-> i + 1]

\* What apply_hunk did, as the run remembers it
Attempt(i, before, r) ==
    [hunk |-> i, before |-> before, tag |-> r.tag,
     begin |-> IF r.tag = "ok" THEN r.begin ELSE 0,
     end |-> IF r.tag = "ok" THEN r.end ELSE 0,
     fuzzy |-> IF r.tag = "ok" THEN r.fuzzy ELSE 0]

\* One turn of the loop of apply: the hunk is applied, or the error returned.
ApplyHunk ==
    /\ pc = "apply"
    /\ strict
    /\ hunk_idx < Len(patch.patch.hunks)
    /\ LET r == apply_hunk(image, patch.patch.hunks[hunk_idx + 1], options.max_fuzzy)
       IN  /\ attempts' = Append(attempts, Attempt(hunk_idx, image, r))
           /\ IF r.tag = "ok"
              THEN /\ image' = r.image
                   /\ hunk_idx' = hunk_idx + 1
                   /\ UNCHANGED <<pc, result>>
              ELSE /\ result' = IF IsPanic(r) THEN Panic ELSE ApplyError(hunk_idx)
                   /\ pc' = "done"
                   /\ image' = IF IsPanic(r) THEN image
                               ELSE apply_hunk_err(image, patch.patch.hunks[hunk_idx + 1])
                   /\ UNCHANGED hunk_idx
    /\ UNCHANGED <<old, new, solution, context_len, patch, text, producer, base_image, strict, options,
                   failed_indices>>
    /\ UNCHANGED engine

\* The end of apply: the image's lines collected into the text returned.
ApplyReturn ==
    /\ pc = "apply"
    /\ strict
    /\ hunk_idx = Len(patch.patch.hunks)
    /\ result' = [tag |-> "Ok", text |-> ImageText(image)]
    /\ pc' = "done"
    /\ UNCHANGED <<old, new, solution, context_len, patch, text, producer, base_image, strict, options,
                   image, hunk_idx, failed_indices, attempts>>
    /\ UNCHANGED engine

\* failed_indices.push with the 1-based index, as apply counts
push_failed_one_based(failed, i) == Append(failed, i + 1)

\* failed_indices.push(i) of apply_all
push_failed(failed, i) == Append(failed, i)

\* One turn of the loop of apply_all: a hunk that fails is noted and skipped.
ApplyAllHunk ==
    /\ pc = "apply"
    /\ ~strict
    /\ hunk_idx < Len(patch.patch.hunks)
    /\ LET r == apply_hunk(image, patch.patch.hunks[hunk_idx + 1], options.max_fuzzy)
       IN  /\ attempts' = Append(attempts, Attempt(hunk_idx, image, r))
           /\ IF IsPanic(r)
              THEN /\ result' = Panic
                   /\ pc' = "done"
                   /\ UNCHANGED <<image, hunk_idx, failed_indices>>
              ELSE /\ image' = IF r.tag = "ok" THEN r.image
                               ELSE apply_hunk_err(image, patch.patch.hunks[hunk_idx + 1])
                   /\ failed_indices' = IF r.tag = "ok" THEN failed_indices
                                        ELSE push_failed(failed_indices, hunk_idx)
                   /\ hunk_idx' = hunk_idx + 1
                   /\ UNCHANGED <<pc, result>>
    /\ UNCHANGED <<old, new, solution, context_len, patch, text, producer, base_image, strict, options>>
    /\ UNCHANGED engine

\* The end of apply_all: the text and the indices of the hunks that failed.
ApplyAllReturn ==
    /\ pc = "apply"
    /\ ~strict
    /\ hunk_idx = Len(patch.patch.hunks)
    /\ result' = [tag |-> "Ok", text |-> ImageText(image), failed |-> failed_indices]
    /\ pc' = "done"
    /\ UNCHANGED <<old, new, solution, context_len, patch, text, producer, base_image, strict, options,
                   image, hunk_idx, failed_indices, attempts>>
    /\ UNCHANGED engine

\* What the wire actions leave alone
WireUnchanged == UNCHANGED <<old, new, solution, context_len, base_image, strict, options,
                             image, hunk_idx, failed_indices, attempts>>

\* Patch::to_string and Patch::to_bytes: the patch is formatted.
Format ==
    /\ pc = "patched"
    /\ ~IsPanic(patch)
    /\ text' = PatchDisplay_fmt(patch.patch)
    /\ producer' = "formatter"
    /\ pc' = "formatted"
    /\ UNCHANGED <<patch, result>>
    /\ WireUnchanged
    /\ UNCHANGED engine

\* The file names as other producers write them: a quoted name with an
\* escaped tab, a quoted name with an escaped quote, a plain name.
WrittenNames ==
    {<<"\"", "a", "\\", "t", "\"">>, <<"\"", "a", "\\", "\"", "\"">>, <<"x">>}

\* A text from another producer: the same patch under another original name.
OtherName ==
    /\ pc = "formatted"
    /\ starts_with(text, <<"-", "-", "-", " ">>)
    /\ \E n \in WrittenNames :
          text' = <<"-", "-", "-", " ">> \o n \o <<NL>> \o Concat(Tail(LineIter(text)))
    /\ producer' = "other_name"
    /\ pc' = "foreign"
    /\ UNCHANGED <<patch, result>>
    /\ WireUnchanged
    /\ UNCHANGED engine

\* A text from another producer: the same patch without the file name lines.
NoNames ==
    /\ pc = "formatted"
    /\ starts_with(text, <<"-", "-", "-", " ">>)
    /\ text' = Concat(Tail(Tail(LineIter(text))))
    /\ producer' = "no_names"
    /\ pc' = "foreign"
    /\ UNCHANGED <<patch, result>>
    /\ WireUnchanged
    /\ UNCHANGED engine

\* The end of a hunk header with no function context, and with one as git
\* writes it
HeaderEnd == <<" ", "@", "@", NL>>

HeaderEndWithContext == <<" ", "@", "@", " ", "f", NL>>

\* A text from another producer: the first hunk header carries a function
\* context.
WithFunctionContext ==
    /\ pc = "formatted"
    /\ FindFrom(text, HeaderEnd, 1) > 0
    /\ With(FindFrom(text, HeaderEnd, 1),
            LAMBDA at : text' = SubSeq(text, 1, at - 1) \o HeaderEndWithContext
                                \o SubSeq(text, at + Len(HeaderEnd), Len(text)))
    /\ producer' = "function_context"
    /\ pc' = "foreign"
    /\ UNCHANGED <<patch, result>>
    /\ WireUnchanged
    /\ UNCHANGED engine

\* A text from another producer: the header of the first hunk counts one
\* line more on the old side than the hunk has.
WrongLength ==
    /\ pc = "formatted"
    /\ Len(patch.patch.hunks) >= 1
    /\ text' = PatchDisplay_fmt(
                   [patch.patch EXCEPT !.hunks[1].old_range.len = @ + 1])
    /\ producer' = "wrong_length"
    /\ pc' = "foreign"
    /\ UNCHANGED <<patch, result>>
    /\ WireUnchanged
    /\ UNCHANGED engine

\* The first two of the hunks, one in the place of the other
SwapFirstTwo(hunks) == <<hunks[2], hunks[1]>> \o SubSeq(hunks, 3, Len(hunks))

\* A text from another producer: the first two hunks in the other order.
SwappedHunks ==
    /\ pc = "formatted"
    /\ Len(patch.patch.hunks) >= 2
    /\ text' = PatchDisplay_fmt(
                   [patch.patch EXCEPT !.hunks = SwapFirstTwo(patch.patch.hunks)])
    /\ producer' = "swapped_hunks"
    /\ pc' = "foreign"
    /\ UNCHANGED <<patch, result>>
    /\ WireUnchanged
    /\ UNCHANGED engine

\* Patch::from_str and Patch::from_bytes: the text is parsed.
Parse ==
    /\ pc \in {"formatted", "foreign"}
    /\ result' = parse(text)
    /\ pc' = "parsed"
    /\ UNCHANGED <<patch, text, producer>>
    /\ WireUnchanged
    /\ UNCHANGED engine

\* The patch the parser returned is formatted in its turn.
FormatParsed ==
    /\ pc = "parsed"
    /\ result.tag = "ok"
    /\ patch' = result
    /\ text' = PatchDisplay_fmt(result.patch)
    /\ producer' = "formatter"
    /\ pc' = "reformatted"
    /\ UNCHANGED <<result>>
    /\ WireUnchanged
    /\ UNCHANGED engine

\* And what the formatter wrote is parsed again.
ParseFormatted ==
    /\ pc = "reformatted"
    /\ result' = parse(text)
    /\ pc' = "reparsed"
    /\ UNCHANGED <<patch, text, producer>>
    /\ WireUnchanged
    /\ UNCHANGED engine

Next ==
    \/ DiffSlice
    \/ CreatePatch
    \/ Apply
    \/ ApplyAll
    \/ ApplyHunk
    \/ ApplyReturn
    \/ ApplyAllHunk
    \/ ApplyAllReturn
    \/ Format
    \/ OtherName
    \/ NoNames
    \/ WithFunctionContext
    \/ WrongLength
    \/ SwappedHunks
    \/ Parse
    \/ FormatParsed
    \/ ParseFormatted

Spec == Init /\ [][Next]_vars

\* ------------------------------------------------- the program, over strs

\* The characters of the strs: a, U+00E9, U+2A40, U+2603 and U+3604.  In
\* UTF-8 the second and the third share a continuation byte, the third and
\* the fourth their first byte, the fourth and the fifth their middle byte.
CodePoints == {97, 233, 10816, 9731, 13828}

\* The strs diffed: at most MaxChars characters.
MaxChars == 2

\* char::encode_utf8, for the characters of up to three bytes
encode_utf8(c) ==
    IF c < 128 THEN <<c>>
    ELSE IF c < 2048 THEN <<192 + (c \div 64), 128 + (c % 64)>>
    ELSE <<224 + (c \div 4096), 128 + ((c \div 64) % 64), 128 + (c % 64)>>

\* str::as_bytes of the str of the given characters
as_bytes(chars) == Concat([i \in 1..Len(chars) |-> encode_utf8(chars[i])])

StrTexts == {as_bytes(chars) : chars \in SeqsUpTo(CodePoints, MaxChars)}

\* Two strs are given; nothing has run.
InitStr ==
    /\ pc = "start_str"
    /\ old \in StrTexts
    /\ new \in StrTexts
    /\ solution = <<>>
    /\ context_len = 0
    /\ patch = <<>>
    /\ text = <<>>
    /\ producer = "none"
    /\ result = <<>>
    /\ ApplierIdle
    /\ engine = NoFrame

\* diff(old, new) of two strs; solution keeps what the map of to_str made of
\* the byte diff, result what diff returned.
DiffStr ==
    /\ pc = "start_str"
    /\ solution' = realign(old, new)
    /\ result' = diff(old, new)
    /\ pc' = "diffed_str"
    /\ UNCHANGED <<old, new, context_len, patch, text, producer, base_image, strict,
                   options, image, hunk_idx, failed_indices, attempts>>
    /\ UNCHANGED engine

NextStr == DiffStr

SpecStr == InitStr /\ [][NextStr]_vars

\* ------------------------------------- the program, over a patch as parsed

\* A line of one letter
LetterLine(c) == <<c, NL>>

\* The context lines a hunk of the test fuzzy_patch may have before and after
\* its edits: the test has A B before and G H after.
LeadingContexts == {<<"B">>, <<"A", "B">>}

TrailingContexts == {<<"G">>, <<"G", "H">>}

\* The edits of the hunk: those of the test, C D for E F, and a shorter
\* replacement, a deletion and an insertion.
HunkEdits ==
    {<<Line("Delete", LetterLine("C")), Line("Delete", LetterLine("D")),
       Line("Insert", LetterLine("E")), Line("Insert", LetterLine("F"))>>,
     <<Line("Delete", LetterLine("C")), Line("Insert", LetterLine("E"))>>,
     <<Line("Delete", LetterLine("C")), Line("Delete", LetterLine("D"))>>,
     <<Line("Insert", LetterLine("E")), Line("Insert", LetterLine("F"))>>}

\* The lines of the hunk: the context before, the edits, the context after
HunkLinesOf(leading, edits, trailing) ==
    [i \in 1..Len(leading) |-> Line("Context", LetterLine(leading[i]))]
    \o edits
    \o [i \in 1..Len(trailing) |-> Line("Context", LetterLine(trailing[i]))]

\* The text of the patch of one hunk at line 1, as the test writes it
PatchTextOf(lines) ==
    <<"-", "-", "-", " ">> \o original_name \o <<NL>>
    \o <<"+", "+", "+", " ">> \o modified_name \o <<NL>>
    \o HunkDisplay_fmt([old_range |-> HunkRange(1, hunk_lines_count(lines)[1]),
                        new_range |-> HunkRange(1, hunk_lines_count(lines)[2]),
                        function_context |-> None, lines |-> lines])

\* The lines with the letters of `changed` replaced by the line 0
Newer(ls, changed) ==
    Concat([i \in 1..Len(ls) |-> IF ls[i] \in changed THEN LetterLine("0") ELSE ls[i]])

\* The context lines the newer text may have changed
ChangedContexts == SUBSET {LetterLine("A"), LetterLine("B"), LetterLine("G"), LetterLine("H")}

\* A patch was parsed from its text; old is the newer text the test applies
\* it to and new the text expected of it.
InitParsed ==
    /\ pc = "patched"
    /\ \E leading \in LeadingContexts, edits \in HunkEdits, trailing \in TrailingContexts,
          changed \in ChangedContexts :
          /\ patch = parse(PatchTextOf(HunkLinesOf(leading, edits, trailing)))
          /\ old = Newer(pre_image(HunkLinesOf(leading, edits, trailing)), changed)
          /\ new = Newer(post_image(HunkLinesOf(leading, edits, trailing)), changed)
          /\ context_len = Max(Len(leading), Len(trailing))
    /\ solution = <<>>
    /\ text = <<>>
    /\ producer = "none"
    /\ result = <<>>
    /\ ApplierIdle
    /\ engine = NoFrame

NextParsed ==
    \/ Apply
    \/ ApplyAll
    \/ ApplyHunk
    \/ ApplyReturn
    \/ ApplyAllHunk
    \/ ApplyAllReturn

SpecParsed == InitParsed /\ [][NextParsed]_vars

\* ------------------------------------------- the program, over a solution

\* The letters of the literals of the lists compact is given
ListLetters == {"a", "b"}

\* The longest literal of a segment, and the most segments of a list
MaxSegmentLen == 1

MaxSegments == 4

\* The segments diff_range_list! is given: a kind and a literal
Segments ==
    [kind : {"Equal", "Delete", "Insert"}, text : SeqsUpTo(ListLetters, MaxSegmentLen)]

\* text1! of diff_range_list!: the literals of the Equals and Deletes
text1(segments) ==
    Concat([k \in 1..Len(segments) |->
               IF segments[k].kind = "Insert" THEN <<>> ELSE segments[k].text])

\* text2! of diff_range_list!: the literals of the Equals and Inserts
text2(segments) ==
    Concat([k \in 1..Len(segments) |->
               IF segments[k].kind = "Delete" THEN <<>> ELSE segments[k].text])

\* range! of diff_range_list!: the ranges of the segments from the k-th on,
\* i and j the offsets reached in the two texts
RECURSIVE diff_range_list(_, _, _, _)
diff_range_list(segments, k, i, j) ==
    IF k > Len(segments) THEN <<>>
    ELSE IF segments[k].kind = "Equal"
    THEN <<Equal(Range(i, Len(segments[k].text)), Range(j, Len(segments[k].text)))>>
         \o diff_range_list(segments, k + 1, i + Len(segments[k].text),
                            j + Len(segments[k].text))
    ELSE IF segments[k].kind = "Delete"
    THEN <<Delete(Range(i, Len(segments[k].text)))>>
         \o diff_range_list(segments, k + 1, i + Len(segments[k].text), j)
    ELSE <<Insert(Range(j, Len(segments[k].text)))>>
         \o diff_range_list(segments, k + 1, i, j + Len(segments[k].text))

\* The letters of the words the tests diff, bat and map among them
WordLetters == {"a", "b", "m", "p", "t"}

\* The longest word
MaxWord == 3

Words == SeqsUpTo(WordLetters, MaxWord)

\* A solution is at hand, built as diff_range_list! builds it, or two words
\* are given and nothing has run.
InitSolution ==
    /\ \/ /\ pc = "solved"
          /\ \E segments \in SeqsUpTo(Segments, MaxSegments) :
                /\ old = text1(segments)
                /\ new = text2(segments)
                /\ solution = [tag |-> "ok",
                               solution |-> diff_range_list(segments, 1, 0, 0)]
       \/ /\ pc = "words"
          /\ old \in Words
          /\ new \in Words
          /\ solution = <<>>
    /\ context_len = 0
    /\ patch = <<>>
    /\ text = <<>>
    /\ producer = "none"
    /\ result = <<>>
    /\ ApplierIdle
    /\ engine = NoFrame

\* What the actions over a solution leave alone
SolutionUnchanged == UNCHANGED <<old, new, context_len, patch, text, producer, base_image,
                                 strict, options, image, hunk_idx, failed_indices, attempts>>

\* myers::diff(old, new)
MyersDiff ==
    /\ pc = "words"
    /\ solution' = do_diff(old, new)
    /\ pc' = "solved"
    /\ UNCHANGED result
    /\ SolutionUnchanged
    /\ UNCHANGED engine

\* compact(&mut solution)
Compact ==
    /\ pc = "solved"
    /\ solution.tag = "ok"
    /\ result' = compact("slice", old, new, solution.solution)
    /\ pc' = "compacted"
    /\ UNCHANGED solution
    /\ SolutionUnchanged
    /\ UNCHANGED engine

\* compact(&mut solution) once more, on what the first call left
CompactAgain ==
    /\ pc = "compacted"
    /\ result.tag = "ok"
    /\ solution' = [tag |-> "ok", solution |-> result.diffs]
    /\ result' = compact("slice", old, new, result.diffs)
    /\ pc' = "compacted_again"
    /\ SolutionUnchanged
    /\ UNCHANGED engine

NextSolution ==
    \/ MyersDiff
    \/ Compact
    \/ CompactAgain

SpecSolution == InitSolution /\ [][NextSolution]_vars

\* ------------------------------------------ the program, over a header

\* The characters a file name is written with: a letter, the four escape
\* letters, and the six characters of ESCAPED_CHARS
NameChars == {"a", "n", "t", "0", "r"} \cup ESCAPED_CHARS

\* The longest file name written
MaxNameLen == 4

\* What follows the line of the original name in the texts of
\* test_escaped_filenames, with a shorter inserted line
AfterOriginal ==
    <<"+", "+", "+", " ">> \o modified_name \o <<NL>>
    \o <<"@", "@", " ", "-", "1", ",", "0", " ", "+", "1", ",", "1", " ", "@", "@", NL>>
    \o <<"+", "O", NL>>

\* A text was written whose original name is any text of NameChars.
InitHeader ==
    /\ pc = "foreign"
    /\ \E name \in SeqsUpTo(NameChars, MaxNameLen) :
          text = <<"-", "-", "-", " ">> \o name \o <<NL>> \o AfterOriginal
    /\ producer = "written_name"
    /\ old = <<>>
    /\ new = <<>>
    /\ solution = <<>>
    /\ context_len = 0
    /\ patch = <<>>
    /\ result = <<>>
    /\ ApplierIdle
    /\ engine = NoFrame

NextHeader == Parse

SpecHeader == InitHeader /\ [][NextHeader]_vars

\* -------------------------------------- the program, over a hunk body

\* The lines a hunk body is written with: a context line, a deleted and an
\* inserted one, the empty context line written as a newline alone, and
\* the marker
BodyLineForms ==
    {<<" ", "a", NL>>, <<"-", "a", NL>>, <<"+", "a", NL>>, <<NL>>,
     NO_NEWLINE_AT_EOF \o <<NL>>}

\* The most lines of a body
MaxBodyLines == 4

\* The text of a patch of one hunk with the given body, the header's
\* lengths being the counts of the body's lines
BodyTextOf(body) ==
    <<"-", "-", "-", " ">> \o original_name \o <<NL>>
    \o <<"+", "+", "+", " ">> \o modified_name \o <<NL>>
    \o <<"@", "@", " ", "-">>
    \o HunkRange_fmt(HunkRange(1, Cardinality({i \in 1..Len(LineIter(body)) :
                                       LineIter(body)[i][1] \in {" ", NL, "-"}})))
    \o <<" ", "+">>
    \o HunkRange_fmt(HunkRange(1, Cardinality({i \in 1..Len(LineIter(body)) :
                                       LineIter(body)[i][1] \in {" ", NL, "+"}})))
    \o <<" ", "@", "@", NL>>
    \o body

\* A text was written with a hunk body of any of the line forms, its last
\* line with its newline or without.
InitBody ==
    /\ pc = "foreign"
    /\ \E forms \in SeqsUpTo(BodyLineForms, MaxBodyLines), cut \in {0, 1} :
          /\ cut <= Len(forms)
          /\ text = BodyTextOf(SubSeq(Concat(forms), 1, Len(Concat(forms)) - cut))
    /\ producer = "written_body"
    /\ old = <<>>
    /\ new = <<>>
    /\ solution = <<>>
    /\ context_len = 0
    /\ patch = <<>>
    /\ result = <<>>
    /\ ApplierIdle
    /\ engine = NoFrame

NextBody == Parse

SpecBody == InitBody /\ [][NextBody]_vars

\* ------------------------------------- the program, inside the Myers engine

\* The atoms of the sequences diffed, and how long a sequence is at most
MyersAtoms == {"a", "b"}

MaxAtoms == 5

\* The deepest the calls of conquer may nest before the stack overflows
MaxDepth == 2 * MaxAtoms + 2

\* No find_middle_snake is running
NoCall == <<>>

\* A call of conquer that is still to be made
ConquerTask(old_range, new_range) == [kind |-> "conquer", old |-> old_range, new |-> new_range]

\* The common suffix a call of conquer pushes when its two halves are done
SuffixTask(common_suffix) == [kind |-> "suffix", equal |-> common_suffix]

\* Myers::do_diff up to the first call of conquer: the two V arrays are
\* allocated for the lengths of the whole texts.
DoDiffFrame(O, N) ==
    [vf |-> V_new(max_d(Len(O), Len(N))),
     vb |-> V_new(max_d(Len(O), Len(N))),
     solution |-> <<>>,
     stack |-> <<ConquerTask(RangeFull(O), RangeFull(N))>>,
     call |-> NoCall,
     snake |-> <<>>]

InitMyers ==
    /\ pc = "myers"
    /\ old \in SeqsUpTo(MyersAtoms, MaxAtoms)
    /\ new \in SeqsUpTo(MyersAtoms, MaxAtoms)
    /\ engine = DoDiffFrame(old, new)
    /\ solution = <<>>
    /\ context_len = 0
    /\ patch = <<>>
    /\ text = <<>>
    /\ producer = "none"
    /\ result = <<>>
    /\ ApplierIdle

\* What the engine leaves alone
EngineUnchanged ==
    UNCHANGED <<old, new, context_len, patch, text, producer, base_image, strict, options,
                image, hunk_idx, failed_indices, attempts>>

\* The run ends in a panic
Panics(message) ==
    /\ pc' = "panicked"
    /\ result' = [tag |-> "panic", message |-> message]
    /\ UNCHANGED <<engine, solution>>

\* The tasks with the common suffix, when there is one, to be pushed next
WithSuffix(common_suffix, stack) ==
    IF common_suffix.r1.len > 0 THEN <<SuffixTask(common_suffix)>> \o stack ELSE stack

\* Myers::conquer up to its recursive calls: the common prefix is pushed, the
\* common suffix set aside; an empty side makes the rest an Insert or a
\* Delete, and otherwise find_middle_snake starts: vf[1] and vb[1] are set
\* and the lengths of the arrays asserted.
ConquerCall ==
    /\ pc = "myers"
    /\ engine.call = NoCall
    /\ Len(engine.stack) > 0
    /\ Head(engine.stack).kind = "conquer"
    /\ LET old0 == Head(engine.stack).old
           new0 == Head(engine.stack).new
           prefix == common_prefix_len(old, old0, new, new0)
           pushed == IF prefix > 0
                     THEN Append(engine.solution,
                                 Equal(slice(old0, 0, prefix), slice(new0, 0, prefix)))
                     ELSE engine.solution
           old1 == slice(old0, prefix, old0.len)
           new1 == slice(new0, prefix, new0.len)
           suffix == common_suffix_len(old, old1, new, new1)
           common_suffix == Equal(slice(old1, old1.len - suffix, old1.len),
                                  slice(new1, new1.len - suffix, new1.len))
           old2 == slice(old1, 0, old1.len - suffix)
           new2 == slice(new1, 0, new1.len - suffix)
           rest == WithSuffix(common_suffix, Tail(engine.stack))
       IN  IF old2.len = 0
           THEN /\ engine' = [engine EXCEPT !.solution = Append(pushed, Insert(new2)),
                                          !.stack = rest]
                /\ UNCHANGED <<pc, result, solution>>
           ELSE IF new2.len = 0
           THEN /\ engine' = [engine EXCEPT !.solution = Append(pushed, Delete(old2)),
                                          !.stack = rest]
                /\ UNCHANGED <<pc, result, solution>>
           ELSE IF ~VIn(engine.vf, 1) \/ ~VIn(engine.vb, 1)
           THEN Panics("index out of bounds")
           ELSE IF V_len(engine.vf) < max_d(old2.len, new2.len)
                   \/ V_len(engine.vb) < max_d(old2.len, new2.len)
           THEN Panics("assertion failed")
           ELSE /\ engine' = [engine EXCEPT !.solution = pushed,
                                          !.stack = rest,
                                          !.vf = VSet(engine.vf, 1, 0),
                                          !.vb = VSet(engine.vb, 1, 0),
                                          !.call = [old |-> old2, new |-> new2,
                                                    d |-> 0, k |-> 0, path |-> "forward",
                                                    wrote_f |-> {1}, wrote_b |-> {1}]]
                /\ UNCHANGED <<pc, result, solution>>
    /\ EngineUnchanged

\* find_middle_snake returns: conquer splits both sides at the start of the
\* snake and calls itself on the first halves, then on the second.
SnakeFound(r) ==
    LET call == engine.call
        x_start == r.snake.x_start
        y_start == r.snake.y_start
    IN  IF ~try_index(0, x_start, call.old.len) \/ ~try_index(0, y_start, call.new.len)
        THEN Panics("index out of bounds")
        ELSE IF Len(engine.stack) + 2 > MaxDepth
        THEN Panics("stack overflow")
        ELSE /\ engine' = [engine EXCEPT
                            !.vf = r.vf,
                            !.vb = r.vb,
                            !.call = NoCall,
                            !.snake = [old |-> call.old, new |-> call.new, d |-> call.d,
                                       dist |-> r.dist, snake |-> r.snake],
                            !.stack = <<ConquerTask(slice(call.old, 0, x_start),
                                                    slice(call.new, 0, y_start)),
                                        ConquerTask(slice(call.old, x_start, call.old.len),
                                                    slice(call.new, y_start, call.new.len))>>
                                      \o engine.stack]
             /\ UNCHANGED <<pc, result, solution>>

\* One turn of the forward loop of find_middle_snake, for the diagonal k of
\* the round d; after the last diagonal the backward loop starts.
ForwardPath ==
    /\ pc = "myers"
    /\ engine.call # NoCall
    /\ engine.call.path = "forward"
    /\ LET call == engine.call
           r == ForwardK(old, call.old, new, call.new, engine.vf, engine.vb, call.d, call.k)
       IN  IF IsPanic(r) THEN Panics("index out of bounds")
           ELSE IF r.tag = "found" THEN SnakeFound(r)
           ELSE /\ engine' = [engine EXCEPT
                               !.vf = r.vf,
                               !.call = [call EXCEPT
                                           !.wrote_f = call.wrote_f \cup {call.k},
                                           !.k = IF call.k - 2 >= -call.d
                                                 THEN call.k - 2 ELSE call.d,
                                           !.path = IF call.k - 2 >= -call.d
                                                    THEN "forward" ELSE "backward"]]
                /\ UNCHANGED <<pc, result, solution>>
    /\ EngineUnchanged

\* One turn of the backward loop of find_middle_snake; after the last
\* diagonal the next round starts, and after the last round the code is at
\* unreachable!().
BackwardPath ==
    /\ pc = "myers"
    /\ engine.call # NoCall
    /\ engine.call.path = "backward"
    /\ LET call == engine.call
           r == BackwardK(old, call.old, new, call.new, engine.vf, engine.vb, call.d, call.k)
       IN  IF IsPanic(r) THEN Panics("index out of bounds")
           ELSE IF r.tag = "found" THEN SnakeFound(r)
           ELSE IF call.k - 2 >= -call.d
           THEN /\ engine' = [engine EXCEPT
                               !.vb = r.vb,
                               !.call = [call EXCEPT
                                           !.wrote_b = call.wrote_b \cup {call.k},
                                           !.k = call.k - 2]]
                /\ UNCHANGED <<pc, result, solution>>
           ELSE IF call.d + 1 >= max_d(call.old.len, call.new.len)
           THEN Panics("unable to find a middle snake")
           ELSE /\ engine' = [engine EXCEPT
                               !.vb = r.vb,
                               !.call = [call EXCEPT
                                           !.wrote_b = call.wrote_b \cup {call.k},
                                           !.d = call.d + 1,
                                           !.k = call.d + 1,
                                           !.path = "forward"]]
                /\ UNCHANGED <<pc, result, solution>>
    /\ EngineUnchanged

\* The end of a call of conquer that recursed: its common suffix is pushed.
PushCommonSuffix ==
    /\ pc = "myers"
    /\ engine.call = NoCall
    /\ Len(engine.stack) > 0
    /\ Head(engine.stack).kind = "suffix"
    /\ engine' = [engine EXCEPT !.solution = Append(engine.solution, Head(engine.stack).equal),
                              !.stack = Tail(engine.stack)]
    /\ UNCHANGED <<pc, result, solution>>
    /\ EngineUnchanged

\* The first call of conquer has returned: do_diff returns the solution.
DoDiffReturn ==
    /\ pc = "myers"
    /\ engine.call = NoCall
    /\ Len(engine.stack) = 0
    /\ pc' = "myers_done"
    /\ solution' = [tag |-> "ok", solution |-> engine.solution]
    /\ UNCHANGED <<engine, result>>
    /\ EngineUnchanged

NextMyers ==
    \/ ConquerCall
    \/ ForwardPath
    \/ BackwardPath
    \/ PushCommonSuffix
    \/ DoDiffReturn

\* The engine runs to its end: nothing but a panic stops it
SpecMyers == InitMyers /\ [][NextMyers]_vars /\ WF_vars(NextMyers)

\* ------------------------------------------ the program, inside compact

\* compact as it starts: the first pass, over the Deletes, from the top
CompactFrame(diffs) ==
    [diffs |-> diffs, pointer |-> 0, kind |-> "Delete", phase |-> "scan", turns |-> 0]

\* The turns the loops of one compact may take before they are held not to end
MaxTurns == 8 * (MaxSegments + MaxAtoms) + 16

\* compact is handed a list built by hand, as test_compact builds them, or
\* the solution of myers::diff, as diff_slice hands it over
InitCompact ==
    /\ pc = "compact"
    /\ \/ /\ producer = "test_compact"
          /\ \E segments \in SeqsUpTo(Segments, MaxSegments) :
                /\ old = text1(segments)
                /\ new = text2(segments)
                /\ solution = [tag |-> "ok", solution |-> diff_range_list(segments, 1, 0, 0)]
       \/ /\ producer = "myers"
          /\ old \in SeqsUpTo(MyersAtoms, MaxAtoms - 1)
          /\ new \in SeqsUpTo(MyersAtoms, MaxAtoms - 1)
          /\ solution = do_diff(old, new)
    /\ engine = CompactFrame(solution.solution)
    /\ context_len = 0
    /\ patch = <<>>
    /\ text = <<>>
    /\ result = <<>>
    /\ ApplierIdle

\* One more turn of a loop of compact, or a loop that does not end
Turn(frame) ==
    IF engine.turns >= MaxTurns THEN Panics("does not end")
    ELSE /\ engine' = [frame EXCEPT !.turns = engine.turns + 1]
         /\ UNCHANGED <<pc, result, solution>>

\* What shift_diff_up and shift_diff_down panic with: the message of their
\* last arm when the range at the pointer is an Equal, else that of the
\* arithmetic or the slicing that failed
ShiftPanic(this) ==
    IF this.kind = "Equal" THEN Panics("range to shift must be either Insert or Delete")
    ELSE Panics("attempt to subtract with overflow")

\* One turn of a loop `while let Some(&diff) = diffs.get(pointer)` of
\* compact: an edit of the pass's kind is shifted up, then down; the pointer
\* passes over anything else.
CompactNext ==
    /\ pc = "compact"
    /\ engine.phase = "scan"
    /\ engine.pointer < Len(engine.diffs)
    /\ IF engine.diffs[engine.pointer + 1].kind = engine.kind
       THEN Turn([engine EXCEPT !.phase = "up"])
       ELSE Turn([engine EXCEPT !.pointer = engine.pointer + 1])
    /\ EngineUnchanged

\* The pass over the Deletes has reached the end: the pass over the Inserts
\* starts from the top.
CompactInserts ==
    /\ pc = "compact"
    /\ engine.phase = "scan"
    /\ engine.pointer >= Len(engine.diffs)
    /\ engine.kind = "Delete"
    /\ Turn([engine EXCEPT !.kind = "Insert", !.pointer = 0])
    /\ EngineUnchanged

\* One turn of the loop of shift_diff_up; when it is left shift_diff_down
\* starts from the pointer it returns.
ShiftDiffUp ==
    /\ pc = "compact"
    /\ engine.phase = "up"
    /\ LET diffs == engine.diffs
           pointer == engine.pointer
       IN  IF pointer - 1 < 0 \/ pointer - 1 >= Len(diffs)
           THEN Turn([engine EXCEPT !.phase = "down"])
           ELSE IF pointer >= Len(diffs) THEN Panics("index out of bounds")
           ELSE LET r == ShiftUpStep("slice", old, new, diffs, pointer,
                                     diffs[pointer + 1], diffs[pointer])
                IN  IF IsPanic(r) THEN ShiftPanic(diffs[pointer + 1])
                    ELSE IF r.tag = "break" THEN Turn([engine EXCEPT !.phase = "down"])
                    ELSE Turn([engine EXCEPT !.diffs = r.diffs, !.pointer = r.pointer])
    /\ EngineUnchanged

\* One turn of the loop of shift_diff_down; when it is left the loop of
\* compact goes on after the pointer it returns.
ShiftDiffDown ==
    /\ pc = "compact"
    /\ engine.phase = "down"
    /\ LET diffs == engine.diffs
           pointer == engine.pointer
       IN  IF pointer + 1 >= Len(diffs)
           THEN Turn([engine EXCEPT !.phase = "scan", !.pointer = pointer + 1])
           ELSE LET r == ShiftDownStep("slice", old, new, diffs, pointer,
                                       diffs[pointer + 1], diffs[pointer + 2])
                IN  IF IsPanic(r) THEN ShiftPanic(diffs[pointer + 1])
                    ELSE IF r.tag = "break"
                    THEN Turn([engine EXCEPT !.phase = "scan", !.pointer = r.pointer + 1])
                    ELSE Turn([engine EXCEPT !.diffs = r.diffs, !.pointer = r.pointer])
    /\ EngineUnchanged

\* The pass over the Inserts has reached the end: compact returns.
CompactReturn ==
    /\ pc = "compact"
    /\ engine.phase = "scan"
    /\ engine.pointer >= Len(engine.diffs)
    /\ engine.kind = "Insert"
    /\ pc' = "compact_done"
    /\ result' = [tag |-> "ok", diffs |-> engine.diffs]
    /\ UNCHANGED <<engine, solution>>
    /\ EngineUnchanged

NextCompact ==
    \/ CompactNext
    \/ CompactInserts
    \/ ShiftDiffUp
    \/ ShiftDiffDown
    \/ CompactReturn

\* compact runs to its end: nothing but a panic stops it
SpecCompact == InitCompact /\ [][NextCompact]_vars /\ WF_vars(NextCompact)

\* ------------------------------------- the program, inside classify_lines

\* The carriage return
CR == "\r"

\* The characters of the texts split into lines
LineChars == {"a", NL, CR}

\* classify_lines as it is called on a text: the iterator holds the whole
\* text, nothing is yielded yet
ClassifyFrame(classifier, side, given, done) ==
    [classifier |-> classifier, side |-> side, rest |-> given,
     lines |-> <<>>, ids |-> <<>>, old_lines |-> done.lines, old_ids |-> done.ids]

\* Two texts are given; one Classifier is made for both and classify_lines
\* is called on the first.
InitLines ==
    /\ pc = "classify"
    /\ old \in SeqsUpTo(LineChars, MaxLen)
    /\ new \in SeqsUpTo(LineChars, MaxLen)
    /\ engine = ClassifyFrame(Classifier_default, "old", old, [lines |-> <<>>, ids |-> <<>>])
    /\ solution = <<>>
    /\ context_len = 0
    /\ patch = <<>>
    /\ text = <<>>
    /\ producer = "none"
    /\ result = <<>>
    /\ ApplierIdle

\* LineIter::next when the text left is not empty, and the closure of
\* classify_lines on the line it yields: the line ends after the first
\* newline or at the end of the text, and is classified.
LineIterNext ==
    /\ pc = "classify"
    /\ Len(engine.rest) # 0
    /\ LET idx == find_newline(engine.rest)
           end == IF idx >= 0 THEN idx + 1 ELSE Len(engine.rest)
           line == SubSeq(engine.rest, 1, end)
           one == classify(engine.classifier, line)
       IN  engine' = [engine EXCEPT !.rest = SubSeq(engine.rest, end + 1, Len(engine.rest)),
                                    !.lines = Append(engine.lines, line),
                                    !.ids = Append(engine.ids, one.id),
                                    !.classifier = one.c]
    /\ UNCHANGED <<pc, result, solution>>
    /\ EngineUnchanged

\* LineIter::next returns None on the first text: classify_lines returns
\* its lines and ids, and is called on the second text with the same
\* classifier.
ClassifyLinesNew ==
    /\ pc = "classify"
    /\ Len(engine.rest) = 0
    /\ engine.side = "old"
    /\ engine' = ClassifyFrame(engine.classifier, "new", new,
                               [lines |-> engine.lines, ids |-> engine.ids])
    /\ UNCHANGED <<pc, result, solution>>
    /\ EngineUnchanged

\* LineIter::next returns None on the second text: classify_lines returns.
ClassifyLinesReturn ==
    /\ pc = "classify"
    /\ Len(engine.rest) = 0
    /\ engine.side = "new"
    /\ pc' = "classified"
    /\ result' = [old_lines |-> engine.old_lines, old_ids |-> engine.old_ids,
                  new_lines |-> engine.lines, new_ids |-> engine.ids]
    /\ UNCHANGED <<engine, solution>>
    /\ EngineUnchanged

NextLines ==
    \/ LineIterNext
    \/ ClassifyLinesNew
    \/ ClassifyLinesReturn

SpecLines == InitLines /\ [][NextLines]_vars

\* ------------------------------------------------------------ the claims

\* The concatenation of the segments of the kinds given
Projection(diffs, kinds) ==
    LET kept == SelectSeq(diffs, LAMBDA d : d.kind \in kinds)
    IN  Concat([i \in 1..Len(kept) |-> kept[i].slice])

\* C1 - Diff round-trip: the Equal and Delete segments diff_slice(a, b)
\* returns, concatenated in order, are a, and its Equal and Insert segments
\* are b.
C1_DiffRoundTrip ==
    pc = "diffed" =>
        /\ solution.tag = "ok"
        /\ Projection(solution.solution, {"Equal", "Delete"}) = LineIter(old)
        /\ Projection(solution.solution, {"Equal", "Insert"}) = LineIter(new)

\* C1: a diff with a segment of each kind, none of them empty
C1_Witness ==
    /\ pc = "diffed"
    /\ solution.tag = "ok"
    /\ \A k \in {"Equal", "Delete", "Insert"} :
          \E i \in 1..Len(solution.solution) :
             solution.solution[i].kind = k /\ Len(solution.solution[i].slice) > 0

\* C2 - Apply inverts diff: apply(a, create_patch(a, b)) succeeds and returns
\* b, with the default context length 3.
C2_ApplyInvertsDiff ==
    (pc = "done" /\ strict /\ context_len = 3 /\ base_image = old) =>
        result = [tag |-> "Ok", text |-> new]

\* C3 - Apply inverts diff at every context length; the case the claim
\* singles out: with context length 0 the patch applied to a returns b.
C3_ApplyInvertsDiffAtContext0 ==
    (pc = "done" /\ strict /\ context_len = 0 /\ base_image = old) =>
        result = [tag |-> "Ok", text |-> new]

\* C9 - Applier exclusivity: the window of the image a hunk matched, and
\* replaced, held no Patched line.
C9_ApplierExclusivity ==
    \A i \in 1..Len(attempts) :
        attempts[i].tag = "ok" =>
            \A j \in (attempts[i].begin + 1)..attempts[i].end :
                ~attempts[i].before[j].patched

\* C9: a hunk was applied to an image where, at some position, its lines
\* match lines an earlier hunk had put there, and only their being Patched
\* refused that position.
C9_Witness ==
    \E i \in 1..Len(attempts) :
        /\ attempts[i].tag = "ok"
        /\ \E pos \in 0..Len(attempts[i].before) :
              /\ match_fragment_unguarded(attempts[i].before,
                     patch.patch.hunks[attempts[i].hunk + 1].lines, pos, 0).matched
              /\ ~match_fragment(attempts[i].before,
                     patch.patch.hunks[attempts[i].hunk + 1].lines, pos, 0).matched

\* C10 - Strict apply: apply stops at the first hunk with no matching
\* position and returns the error with that hunk's 1-based index; the hunks
\* before it were applied, none after it was tried, no text is returned.
C10_StrictStopsAtFirstFailure ==
    /\ (strict /\ \E i \in 1..Len(attempts) : attempts[i].tag = "err") =>
          /\ pc = "done"
          /\ result.tag = "Err"
    /\ (pc = "done" /\ strict /\ result.tag = "Err") =>
          /\ result = [tag |-> "Err", index |-> Len(attempts)]
          /\ \A i \in 1..Len(attempts) :
                /\ attempts[i].hunk = i - 1
                /\ attempts[i].tag = IF i = Len(attempts) THEN "err" ELSE "ok"

\* C10: apply failed at the second hunk, after applying the first
C10_Witness ==
    /\ pc = "done"
    /\ strict
    /\ result.tag = "Err"
    /\ result.index = 2

\* Every range of the list starts and ends on a character boundary of its
\* text
OnBoundaries(old_text, new_text, ranges) ==
    \A i \in 1..Len(ranges) :
        /\ ranges[i].kind \in {"Equal", "Delete"} =>
               /\ is_char_boundary(old_text, ranges[i].r1.offset)
               /\ is_char_boundary(old_text, ranges[i].r1.offset + ranges[i].r1.len)
        /\ ranges[i].kind \in {"Equal", "Insert"} =>
               /\ is_char_boundary(new_text, ranges[i].r2.offset)
               /\ is_char_boundary(new_text, ranges[i].r2.offset + ranges[i].r2.len)

\* C7: UTF-8 safety: every range the string-typed diff makes of the byte
\* diff, and every segment it returns, starts and ends on a character
\* boundary of its text.
C7_Utf8Safety ==
    pc = "diffed_str" =>
        /\ solution.tag = "ok" => OnBoundaries(old, new, solution.solution)
        /\ result.tag = "ok" => OnBoundaries(old, new, result.ranges)

\* The bytes of the ranges of one side, one range after the other
RECURSIVE SideOf(_, _, _, _)
SideOf(side_text, ranges, kinds, i) ==
    IF i > Len(ranges) THEN <<>>
    ELSE (IF ranges[i].kind \in kinds
          THEN as_slice(side_text, IF "Delete" \in kinds THEN ranges[i].r1 ELSE ranges[i].r2)
          ELSE <<>>)
         \o SideOf(side_text, ranges, kinds, i + 1)

\* C8: Boundary realignment preserves the concatenation invariant: no length
\* goes below zero while the ranges are realigned, and afterwards the ranges
\* of the old side are the old str and those of the new side the new str,
\* no byte twice and none dropped.
C8_RealignmentKeepsConcatenation ==
    pc = "diffed_str" =>
        /\ solution.tag = "ok"
        /\ SideOf(old, solution.solution, {"Equal", "Delete"}, 1) = old
        /\ SideOf(new, solution.solution, {"Equal", "Insert"}, 1) = new


\* C4: Parse-format round-trip: parsing the text the formatter wrote for a
\* patch returns a patch equal to it, whatever its file names and hunks,
\* ones with a function context included.
C4_ParseFormatRoundTrip ==
    (pc \in {"parsed", "reparsed"} /\ producer = "formatter")
        => result = [tag |-> "ok", patch |-> patch.patch]

\* The lines of the given kinds among the lines of a hunk
CountKinds(lines, kinds) == Cardinality({i \in 1..Len(lines) : lines[i].kind \in kinds})

\* The lengths of a hunk's ranges are the counts of its lines
HunkIntegrity(hunk) ==
    /\ CountKinds(hunk.lines, {"Context", "Delete"}) = hunk.old_range.len
    /\ CountKinds(hunk.lines, {"Context", "Insert"}) = hunk.new_range.len

PatchIntegrity(p) == \A i \in 1..Len(p.hunks) : HunkIntegrity(p.hunks[i])

\* C5: Hunk integrity: create_patch never trips the assertion of Hunk::new,
\* every hunk of a patch it or the parser returns has range lengths equal to
\* the counts of its lines, and the parser returns an error for a hunk whose
\* header lengths are not those of its body.
C5_HunkIntegrity ==
    /\ (pc = "patched") => (~IsPanic(patch) /\ PatchIntegrity(patch.patch))
    /\ (pc \in {"parsed", "reparsed"} /\ result.tag = "ok") => PatchIntegrity(result.patch)
    /\ (pc = "parsed" /\ producer = "wrong_length") => result.tag = "err"

\* A wrong header length was refused by the parser.
C5_Witness ==
    /\ pc = "parsed"
    /\ producer = "wrong_length"
    /\ Len(patch.patch.hunks[1].lines) > 0
    /\ result = ParseErr("Hunk header does not match hunk")

\* Each hunk ends, on both sides, no later than the next one starts
HunksInOrder(hunks) ==
    \A i \in 1..(Len(hunks) - 1) :
        /\ hunks[i].old_range.start + hunks[i].old_range.len <= hunks[i + 1].old_range.start
        /\ hunks[i].new_range.start + hunks[i].new_range.len <= hunks[i + 1].new_range.start

\* C6: Hunks are sorted and non-overlapping in every patch create_patch
\* returns and in every patch the parser accepts, and the parser returns an
\* error for a text whose hunks are not.
C6_HunksSortedNonOverlapping ==
    /\ (pc = "patched" /\ ~IsPanic(patch)) => HunksInOrder(patch.patch.hunks)
    /\ (pc \in {"parsed", "reparsed"} /\ result.tag = "ok")
           => HunksInOrder(result.patch.hunks)
    /\ (/\ pc = "parsed"
        /\ producer = "swapped_hunks"
        /\ ~HunksInOrder(SwapFirstTwo(patch.patch.hunks))) => result.tag = "err"

\* A patch of two hunks was made, and its text with the two hunks in the
\* other order was refused by the parser.
C6_Witness ==
    /\ pc = "parsed"
    /\ producer = "swapped_hunks"
    /\ ~HunksInOrder(SwapFirstTwo(patch.patch.hunks))
    /\ result = ParseErr("Hunks not in order or overlap")

\* The image after the i-th call of apply_hunk
ImageAfter(i) == IF i < Len(attempts) THEN attempts[i + 1].before ELSE image

\* The 0-based indices of the calls of apply_hunk that returned an error
RECURSIVE FailedOf(_, _)
FailedOf(tried, i) ==
    IF i > Len(tried) THEN <<>>
    ELSE (IF tried[i].tag = "err" THEN <<tried[i].hunk>> ELSE <<>>) \o FailedOf(tried, i + 1)

\* Some position of the image matches the hunk at some fuzz it may use
SomePositionMatches(before, hunk, options_max_fuzzy) ==
    \E pos \in 0..Len(before) :
        \E fuzzy \in 0..Min(Min(pre_context_line_count(hunk.lines),
                                 post_context_line_count(hunk.lines)), options_max_fuzzy) :
            match_fragment(before, hunk.lines, pos, fuzzy) = [tag |-> "ok", matched |-> TRUE]

\* C11: Best-effort apply: apply_all tries every hunk in order, whatever
\* became of the ones before; the indices it returns are those of exactly the
\* hunks no position of the image matched; a hunk that failed left the image
\* as it was, every other was applied, and the text returned is the image
\* after the last.
C11_BestEffortApply ==
    /\ (pc \in {"apply", "done"} /\ ~strict) =>
          /\ Len(attempts) = hunk_idx
          /\ failed_indices = FailedOf(attempts, 1)
          /\ \A i \in 1..Len(attempts) :
                /\ attempts[i].hunk = i - 1
                /\ attempts[i].tag \in {"ok", "err"}
                /\ (attempts[i].tag = "err")
                       <=> ~SomePositionMatches(attempts[i].before, patch.patch.hunks[i],
                                                options.max_fuzzy)
                /\ attempts[i].tag = "err" => ImageAfter(i) = attempts[i].before
                /\ attempts[i].tag = "ok" =>
                       ImageAfter(i) = apply_hunk(attempts[i].before, patch.patch.hunks[i],
                                                  options.max_fuzzy).image
    /\ (pc = "done" /\ ~strict) =>
          /\ Len(attempts) = Len(patch.patch.hunks)
          /\ result = [tag |-> "Ok", text |-> ImageText(image),
                       failed |-> FailedOf(attempts, 1)]

\* C11: apply_all returned after its first hunk failed and a later one was
\* applied.
C11_Witness ==
    /\ pc = "done"
    /\ ~strict
    /\ result.tag = "Ok"
    /\ Len(result.failed) > 0
    /\ result.failed[1] = 0
    /\ \E i \in 2..Len(attempts) :
          attempts[i].tag = "ok" /\ ImageAfter(i) # attempts[i].before

\* The post-image of a hunk's lines without its first and last `fuzzy`
\* lines, each line Patched
PatchedLinesOf(lines, fuzzy) ==
    LET kept == SelectSeq(lines, LAMBDA l : l.kind \in {"Context", "Insert"})
    IN  [i \in 1..(Len(kept) - 2 * fuzzy) |-> [patched |-> TRUE, line |-> kept[fuzzy + i].line]]

\* The call of apply_hunk replaced the window [pos + fuzzy, pos + L - fuzzy)
\* of the image, L the length of the pre-image, and nothing else
ReplacedWindow(before, after, lines, pos, fuzzy) ==
    LET L == CountKinds(lines, {"Context", "Delete"})
    IN  /\ pos >= 0
        /\ pos + fuzzy <= pos + L - fuzzy
        /\ pos + L - fuzzy <= Len(before)
        /\ \A j \in 1..fuzzy :
              lines[j].kind = "Context" /\ lines[Len(lines) + 1 - j].kind = "Context"
        /\ after = SubSeq(before, 1, pos + fuzzy)
                   \o PatchedLinesOf(lines, fuzzy)
                   \o SubSeq(before, pos + L - fuzzy + 1, Len(before))

\* The hunk of the test fuzzy_patch: context A B, C D for E F, context G H
FuzzyPatchHunk ==
    HunkLinesOf(<<"A", "B">>,
                <<Line("Delete", LetterLine("C")), Line("Delete", LetterLine("D")),
                  Line("Insert", LetterLine("E")), Line("Insert", LetterLine("F"))>>,
                <<"G", "H">>)

\* C12: Fuzzy apply result: a hunk accepted with fuzz f at position pos
\* replaces the image lines [pos + f, pos + L - f) by its post-image without
\* the first f and last f context lines, each Patched, and every other line
\* of the image, the f tolerated on each side included, keeps its content,
\* order and tag; the hunk of the test, applied with max_fuzzy 2 to
\* 0 B C D G H, gives 0 B E F G H and no failed hunk.
C12_FuzzyApplyResult ==
    /\ \A i \in 1..Len(attempts) :
          attempts[i].tag = "ok" =>
              /\ attempts[i].fuzzy <= options.max_fuzzy
              /\ attempts[i].end - attempts[i].begin
                     = CountKinds(patch.patch.hunks[attempts[i].hunk + 1].lines,
                                  {"Context", "Delete"}) - 2 * attempts[i].fuzzy
              /\ ReplacedWindow(attempts[i].before, ImageAfter(i),
                                patch.patch.hunks[attempts[i].hunk + 1].lines,
                                attempts[i].begin - attempts[i].fuzzy, attempts[i].fuzzy)
    /\ (/\ pc = "done"
        /\ ~strict
        /\ options.max_fuzzy = 2
        /\ patch.patch.hunks[1].lines = FuzzyPatchHunk
        /\ base_image = Newer(pre_image(FuzzyPatchHunk), {LetterLine("A")}))
          => result = [tag |-> "Ok",
                       text |-> Newer(post_image(FuzzyPatchHunk), {LetterLine("A")}),
                       failed |-> <<>>]

\* C12: the test fuzzy_patch: the hunk was accepted with fuzz 2 and the text
\* returned has the first context line as the base had it.
C12_Witness ==
    /\ pc = "done"
    /\ ~strict
    /\ patch.patch.hunks[1].lines = FuzzyPatchHunk
    /\ base_image = Newer(pre_image(FuzzyPatchHunk), {LetterLine("A")})
    /\ Len(attempts) = 1
    /\ attempts[1].tag = "ok"
    /\ attempts[1].fuzzy = 2
    /\ result.text = Concat(<<LetterLine("0"), LetterLine("B"), LetterLine("E"),
                              LetterLine("F"), LetterLine("G"), LetterLine("H")>>)

\* C13: Raising max_fuzzy does not change a clean apply: apply_all of the
\* patch create_patch made of a and b, applied to a with max_fuzzy 0 and
\* with max_fuzzy 1, returns the text b, as apply does.
C13_FuzzKeepsCleanApply ==
    (/\ pc = "done"
     /\ ~strict
     /\ context_len = 3
     /\ base_image = old
     /\ options.max_fuzzy \in {0, 1}) => (result.tag = "Ok" /\ result.text = new)

\* C14: Cleanup idempotence: compact run on the list a first run of compact
\* left, whatever well-formed list the first was given, leaves it as it is.
C14_CleanupIdempotence ==
    pc = "compacted_again" => result = [tag |-> "ok", diffs |-> solution.solution]

\* C15: Cleanup monotonicity: compact does not fail on a well-formed list,
\* and afterwards the Equal and Delete ranges still cover the old text in
\* order and the Equal and Insert ranges the new text.
C15_CleanupMonotonicity ==
    pc \in {"compacted", "compacted_again"} =>
        /\ result.tag = "ok"
        /\ SideOf(old, result.diffs, {"Equal", "Delete"}, 1) = old
        /\ SideOf(new, result.diffs, {"Equal", "Insert"}, 1) = new
        /\ \A i \in 1..Len(result.diffs) :
              result.diffs[i].kind = "Equal" =>
                  as_slice(old, result.diffs[i].r1) = as_slice(new, result.diffs[i].r2)

\* C15: compact made a list of MaxSegments segments shorter and grew an
\* Equal beyond any literal of the list it was given.
C15_Witness ==
    /\ pc = "compacted"
    /\ result.tag = "ok"
    /\ Len(solution.solution) = MaxSegments
    /\ Len(result.diffs) < Len(solution.solution)
    /\ \E i \in 1..Len(result.diffs) :
          result.diffs[i].kind = "Equal" /\ result.diffs[i].r1.len > MaxSegmentLen
    /\ \E i \in 1..Len(result.diffs) : result.diffs[i].kind = "Delete"
    /\ \E i \in 1..Len(result.diffs) : result.diffs[i].kind = "Insert"

\* No Insert is followed at once by a Delete, and no edit by one of its kind
DeleteFirst(diffs) ==
    \A i \in 1..(Len(diffs) - 1) :
        /\ ~(diffs[i].kind = "Insert" /\ diffs[i + 1].kind = "Delete")
        /\ ~(diffs[i].kind = "Delete" /\ diffs[i + 1].kind = "Delete")
        /\ ~(diffs[i].kind = "Insert" /\ diffs[i + 1].kind = "Insert")

\* C16: Delete precedes Insert: in the list compact leaves no Insert is
\* followed at once by a Delete and no two adjacent segments are both
\* Delete or both Insert; the diff of bat and map is Delete b, Insert m,
\* Equal a, Delete t, Insert p.
C16_DeletePrecedesInsert ==
    /\ (pc \in {"compacted", "compacted_again"} /\ result.tag = "ok")
          => DeleteFirst(result.diffs)
    /\ (/\ pc = "compacted"
        /\ old = <<"b", "a", "t">>
        /\ new = <<"m", "a", "p">>
        /\ solution = do_diff(old, new))
          => /\ result.tag = "ok"
             /\ [i \in 1..Len(result.diffs) |-> Diff_from(old, new, result.diffs[i])]
                   = <<[kind |-> "Delete", slice |-> <<"b">>],
                       [kind |-> "Insert", slice |-> <<"m">>],
                       [kind |-> "Equal", slice |-> <<"a">>],
                       [kind |-> "Delete", slice |-> <<"t">>],
                       [kind |-> "Insert", slice |-> <<"p">>]>>

\* C16: the solution of myers::diff had an Insert followed at once by a
\* Delete, and compact put the Delete first.
C16_Witness ==
    /\ pc = "compacted"
    /\ solution = do_diff(old, new)
    /\ ~DeleteFirst(solution.solution)
    /\ result.tag = "ok"
    /\ \E i \in 1..(Len(result.diffs) - 1) :
          result.diffs[i].kind = "Delete" /\ result.diffs[i + 1].kind = "Insert"

\* The six characters that are written escaped, each with the letter that
\* follows the backslash
SixEscapes ==
    {<<NL, "n">>, <<"\t", "t">>, <<NUL, "0">>, <<"\r", "r">>, <<"\"", "\"">>, <<"\\", "\\">>}

SixChars == {e[1] : e \in SixEscapes}

\* The original name as it was written: what stands between "--- " and the
\* newline before the rest of the text
WrittenName == SubSeq(text, 5, Len(text) - Len(AfterOriginal) - 1)

\* The name as the line gives it: what stands before the first tab
NameField(written) ==
    IF \E i \in 1..Len(written) : written[i] = "\t"
    THEN SubSeq(written, 1,
                (CHOOSE i \in 1..Len(written) :
                    written[i] = "\t" /\ \A j \in 1..(i - 1) : written[j] # "\t") - 1)
    ELSE written

\* A name in double quotes
InQuotes(field) == Len(field) >= 2 /\ field[1] = "\"" /\ field[Len(field)] = "\""

\* What stands between the quotes is escaped as it should be: every
\* backslash is followed by the letter of one of the six escapes, and no
\* character of the six stands unescaped
RECURSIVE WellEscaped(_)
WellEscaped(inside) ==
    IF Len(inside) = 0 THEN TRUE
    ELSE IF inside[1] = "\\"
    THEN /\ Len(inside) >= 2
         /\ \E e \in SixEscapes : e[2] = inside[2]
         /\ WellEscaped(SubSeq(inside, 3, Len(inside)))
    ELSE inside[1] \notin SixChars /\ WellEscaped(Tail(inside))

\* The name a well escaped text stands for
RECURSIVE Decoded(_)
Decoded(inside) ==
    IF Len(inside) = 0 THEN <<>>
    ELSE IF inside[1] = "\\"
    THEN <<(CHOOSE e \in SixEscapes : e[2] = inside[2])[1]>>
         \o Decoded(SubSeq(inside, 3, Len(inside)))
    ELSE <<inside[1]>> \o Decoded(Tail(inside))

\* What the parser is to make of the name field of a header line
NameParsedAs(field, parsed) ==
    IF InQuotes(field)
    THEN IF WellEscaped(SubSeq(field, 2, Len(field) - 1))
         THEN /\ parsed.tag = "ok"
              /\ parsed.patch.original = Some(Decoded(SubSeq(field, 2, Len(field) - 1)))
         ELSE parsed.tag = "err"
    ELSE IF \E i \in 1..Len(field) : field[i] \in SixChars
         THEN parsed.tag = "err"
         ELSE parsed.tag = "ok" /\ parsed.patch.original = Some(field)

\* C17: Quoted file names: the name of a header line is what stands before
\* the first tab or the end of the line; in double quotes it is decoded
\* with exactly the six escapes, and any other escape, a backslash with
\* nothing after it or a character of the six left unescaped is a parse
\* error; without quotes a name with a character of the six is a parse
\* error.
C17_QuotedFileNames ==
    (pc = "parsed" /\ producer = "written_name") =>
        IF \E i \in 1..Len(WrittenName) : WrittenName[i] = NL
        THEN result.tag = "err"
        ELSE NameParsedAs(NameField(WrittenName), result)

\* C17: a name in quotes with an escaped tab was parsed to the name with
\* the tab in it.
C17_Witness ==
    /\ pc = "parsed"
    /\ producer = "written_name"
    /\ WrittenName = <<"\"", "\\", "t", "\"">>
    /\ result.tag = "ok"
    /\ result.patch.original = Some(<<"\t">>)

\* The lines of the hunk body of the text: those after the two file name
\* lines and the hunk header
WrittenBody == SubSeq(LineIter(text), 4, Len(LineIter(text)))

\* A line that is the marker
IsMarker(line) == starts_with(line, NO_NEWLINE_AT_EOF)

\* The kind a body line is written as
WrittenKind(line) ==
    IF line[1] = "-" THEN "Delete" ELSE IF line[1] = "+" THEN "Insert" ELSE "Context"

\* What a body line holds after its first character; the newline alone is
\* its own content
WrittenContent(line) == IF line[1] = NL THEN line ELSE Tail(line)

\* The marker is out of place: no line before it in the hunk, or the line
\* before it has no newline left, or a line of the kind of a marked line
\* comes after it, or any line comes after a marked Context line
MarkerMisplaced(body) ==
    \E k \in 1..Len(body) :
        /\ IsMarker(body[k])
        /\ \/ k = 1
           \/ IsMarker(body[k - 1])
           \/ \E j \in (k + 1)..Len(body) :
                 \/ WrittenKind(body[k - 1]) = "Context"
                 \/ ~IsMarker(body[j]) /\ WrittenKind(body[j]) = WrittenKind(body[k - 1])

\* The lines of the hunk: every line but the markers, a line before a marker
\* without its newline
MarkedLines(body) ==
    LET at == SelectSeq([i \in 1..Len(body) |-> i], LAMBDA i : ~IsMarker(body[i]))
    IN  [n \in 1..Len(at) |->
            [kind |-> WrittenKind(body[at[n]]),
             line |-> IF at[n] < Len(body) /\ IsMarker(body[at[n] + 1])
                      THEN SubSeq(WrittenContent(body[at[n]]), 1,
                                  Len(WrittenContent(body[at[n]])) - 1)
                      ELSE WrittenContent(body[at[n]])]]

\* C18: No-newline marker on parse: at a marker line the parser strips the
\* newline of the hunk line just before it and keeps its kind; a further
\* line of that kind in the hunk, any further line after a marked Context
\* line, a marker with no line before it in the hunk and a marker after a
\* line without a newline are parse errors.
C18_NoNewlineMarker ==
    (pc = "parsed" /\ producer = "written_body") =>
        IF MarkerMisplaced(WrittenBody)
        THEN result.tag = "err"
        ELSE /\ result.tag = "ok"
             /\ Len(result.patch.hunks) = 1
             /\ result.patch.hunks[1].lines = MarkedLines(WrittenBody)

\* C18: a body with a marked Delete line and a marked Insert line after it
\* was parsed, both lines without their newlines.
C18_Witness ==
    /\ pc = "parsed"
    /\ producer = "written_body"
    /\ Len(WrittenBody) = 4
    /\ IsMarker(WrittenBody[2])
    /\ IsMarker(WrittenBody[4])
    /\ result.tag = "ok"
    /\ result.patch.hunks[1].lines = <<Line("Delete", <<"a">>), Line("Insert", <<"a">>)>>

\* The 0-based index of the first line of a range whose start counts from 1
\* when it has lines, and the number of lines before it when it has none
FirstIndexOf(r) == IF r.len > 0 THEN r.start - 1 ELSE r.start

\* The 0-based index one past the last line of a range
EndIndexOf(r) == FirstIndexOf(r) + r.len

\* The hunks lie in the two files where their ranges say: on each side, the
\* lines of the range are the hunk's lines of that side, and what lies between
\* two hunks, before the first and after the last is the same on both sides.
RangesLocate(a, b, hunks) ==
    /\ \A i \in 1..Len(hunks) :
          LET h == hunks[i]
              e1 == IF i = 1 THEN 0 ELSE EndIndexOf(hunks[i - 1].old_range)
              e2 == IF i = 1 THEN 0 ELSE EndIndexOf(hunks[i - 1].new_range)
              s1 == FirstIndexOf(h.old_range)
              s2 == FirstIndexOf(h.new_range)
          IN  /\ e1 <= s1 /\ EndIndexOf(h.old_range) <= Len(a)
              /\ e2 <= s2 /\ EndIndexOf(h.new_range) <= Len(b)
              /\ SubSeq(a, e1 + 1, s1) = SubSeq(b, e2 + 1, s2)
              /\ SubSeq(a, s1 + 1, s1 + h.old_range.len) = pre_image(h.lines)
              /\ SubSeq(b, s2 + 1, s2 + h.new_range.len) = post_image(h.lines)
    /\ LET e1 == IF Len(hunks) = 0 THEN 0 ELSE EndIndexOf(hunks[Len(hunks)].old_range)
           e2 == IF Len(hunks) = 0 THEN 0 ELSE EndIndexOf(hunks[Len(hunks)].new_range)
       IN  SubSeq(a, e1 + 1, Len(a)) = SubSeq(b, e2 + 1, Len(b))

\* The ranges of a patch, of both sides of every hunk
RangesOf(p) ==
    {p.hunks[i].old_range : i \in 1..Len(p.hunks)}
        \cup {p.hunks[i].new_range : i \in 1..Len(p.hunks)}

\* C19 - Hunk range numbering, as the specification states it: a range of
\* create_patch with lines starts at the 1-based number of its first line, and
\* a range with no lines has start 0 and is written "0,0".
C19_HunkRangeNumbering ==
    pc = "patched" =>
        /\ ~IsPanic(patch)
        /\ RangesLocate(LineIter(old), LineIter(new), patch.patch.hunks)
        /\ \A r \in RangesOf(patch.patch) :
              /\ r.len > 0 => r.start >= 1
              /\ r.len = 0 => (r.start = 0 /\ HunkRange_fmt(r) = <<"0", ",", "0">>)

\* C19, amended - Hunk range numbering: with s the 0-based index of the first
\* line of a side of a hunk of create_patch and len its line count, the range
\* has start s + 1 when len > 0 and start s, the number of lines before the
\* hunk, when len = 0; a range with no lines is written "s,0", which is "0,0"
\* at the top of a file.
C19_HunkRangeNumberingAmended ==
    pc = "patched" =>
        /\ ~IsPanic(patch)
        /\ RangesLocate(LineIter(old), LineIter(new), patch.patch.hunks)
        /\ \A r \in RangesOf(patch.patch) :
              /\ r.len > 0 => r.start >= 1
              /\ r.len = 0 => HunkRange_fmt(r) = Decimal(r.start) \o <<",", "0">>
              /\ (r.len = 0 /\ r.start = 0) => HunkRange_fmt(r) = <<"0", ",", "0">>

\* C19: a patch with a hunk that only deletes, below the top of the new file,
\* and a hunk that only inserts, below the top of the old file
C19_Witness ==
    /\ pc = "patched"
    /\ ~IsPanic(patch)
    /\ \E i \in 1..Len(patch.patch.hunks) :
          /\ patch.patch.hunks[i].new_range.len = 0
          /\ patch.patch.hunks[i].new_range.start > 0
          /\ patch.patch.hunks[i].old_range.len > 0
    /\ \E i \in 1..Len(patch.patch.hunks) :
          /\ patch.patch.hunks[i].old_range.len = 0
          /\ patch.patch.hunks[i].old_range.start > 0

\* The rule of the fuzzy match: the window of the image from pos + fuzzy to
\* pos + L - fuzzy exists, holds no Patched line and is, line for line, the
\* hunk's pre-image without its first and last fuzzy lines.
FuzzyMatchRule(before, lines, pos, fuzzy) ==
    LET pre == pre_image(lines)
        L == Len(pre)
        kept == SubSeq(pre, fuzzy + 1, L - fuzzy)
    IN  /\ fuzzy <= L - fuzzy
        /\ pos + L - fuzzy <= Len(before)
        /\ \A j \in 1..(L - 2 * fuzzy) :
              /\ ~before[pos + fuzzy + j].patched
              /\ before[pos + fuzzy + j].line = kept[j]

\* The fuzz a hunk may be matched with
FuzzOf(lines, options_max_fuzzy) ==
    0..Min(Min(pre_context_line_count(lines), post_context_line_count(lines)),
           options_max_fuzzy)

\* C20 - Fuzzy match rule: for every hunk apply or apply_all tried, every
\* position of the image it was tried on and every fuzz the hunk may be
\* matched with, match_fragment accepts the position if and only if the
\* window image[pos+f .. pos+L-f] exists, holds no Patched line and equals the
\* hunk's pre-image without its first f and last f context lines, whatever
\* the order of the hunk's Insert, Delete and Context lines.
C20_FuzzyMatchRule ==
    \A i \in 1..Len(attempts) :
        LET before == attempts[i].before
            lines == patch.patch.hunks[attempts[i].hunk + 1].lines
        IN  \A pos \in 0..Len(before) :
                \A fuzzy \in FuzzOf(lines, options.max_fuzzy) :
                    match_fragment(before, lines, pos, fuzzy)
                        = [tag |-> "ok", matched |-> FuzzyMatchRule(before, lines, pos, fuzzy)]

\* The position find_position tries first for a hunk
FirstTried(hunk) == saturating_sub(hunk.new_range.start, 1)

\* match_fragment accepts the position at the fuzz
Accepts(before, hunk, pos, fuzzy) ==
    match_fragment(before, hunk.lines, pos, fuzzy) = [tag |-> "ok", matched |-> TRUE]

\* The positions a window of an image, or the first position tried, can be at
PositionsOf(before, hunk) == 0..Max(Len(before), FirstTried(hunk))

\* q is tried before p in a search that starts at first: it is nearer to
\* first, or as near and lower
TriedBefore(q, p, first) ==
    \/ Abs(q - first) < Abs(p - first)
    \/ (Abs(q - first) = Abs(p - first) /\ q < p)

\* C21 - Position search order: the positions tried are new_range.start - 1,
\* then one lower, one higher, two lower, two higher and so on until both
\* directions are exhausted; the position a hunk was applied at is accepted
\* at its fuzz, no position is accepted at a lower fuzz, and no position
\* nearer to the first one tried, or as near and lower, is accepted at that
\* fuzz; a hunk that failed is accepted nowhere at any fuzz it may use.
C21_PositionSearchOrder ==
    \A i \in 1..Len(attempts) :
        LET before == attempts[i].before
            hunk == patch.patch.hunks[attempts[i].hunk + 1]
            first == FirstTried(hunk)
            order == SearchOrder(first, Len(before))
            pos == attempts[i].begin - attempts[i].fuzzy
        IN  /\ order[1] = first
            /\ \A j \in 1..(Len(order) - 1) : TriedBefore(order[j], order[j + 1], first)
            /\ {order[j] : j \in 1..Len(order)} = (0..(Len(before) - 1)) \cup (0..first)
            /\ attempts[i].tag = "ok" =>
                  /\ attempts[i].fuzzy \in FuzzOf(hunk.lines, options.max_fuzzy)
                  /\ Accepts(before, hunk, pos, attempts[i].fuzzy)
                  /\ \A q \in PositionsOf(before, hunk) :
                        /\ \A f \in 0..(attempts[i].fuzzy - 1) : ~Accepts(before, hunk, q, f)
                        /\ TriedBefore(q, pos, first) => ~Accepts(before, hunk, q, attempts[i].fuzzy)
            /\ attempts[i].tag = "err" =>
                  \A q \in PositionsOf(before, hunk) :
                      \A f \in FuzzOf(hunk.lines, options.max_fuzzy) : ~Accepts(before, hunk, q, f)

\* C21: a hunk was applied one line below the first position tried, where
\* it was not accepted, though the position one line above accepts it too
C21_Witness ==
    \E i \in 1..Len(attempts) :
        LET before == attempts[i].before
            hunk == patch.patch.hunks[attempts[i].hunk + 1]
            first == FirstTried(hunk)
            pos == attempts[i].begin - attempts[i].fuzzy
        IN  /\ attempts[i].tag = "ok"
            /\ first >= 1
            /\ pos = first - 1
            /\ Accepts(before, hunk, first + 1, attempts[i].fuzzy)

\* The two sides of a call of find_middle_snake are not empty and share no
\* prefix and no suffix
SidesDiffer(old_range, new_range) ==
    /\ old_range.len > 0
    /\ new_range.len > 0
    /\ common_prefix_len(old, old_range, new, new_range) = 0
    /\ common_suffix_len(old, old_range, new, new_range) = 0

\* The bound of the rounds as the claim has it
RoundsBound(n, m) == (n + m + 1) \div 2 + 1

\* The snake find_middle_snake returned lies in the two sides it was given,
\* and was found in a round below max_d
SnakeInBounds(found) ==
    LET n == found.old.len
        m == found.new.len
        s == found.snake
    IN  /\ SidesDiffer(found.old, found.new)
        /\ found.d < RoundsBound(n, m)
        /\ found.dist \in {2 * found.d - 1, 2 * found.d}
        /\ 0 <= s.x_start /\ s.x_start <= s.x_end /\ s.x_end <= n
        /\ 0 <= s.y_start /\ s.y_start <= s.y_end /\ s.y_end <= m

\* The engine while find_middle_snake runs and when it has returned: no
\* panic, the round below max_d, the snake in bounds
MiddleSnakeFound ==
    /\ pc # "panicked"
    /\ (pc = "myers" /\ engine.call # NoCall) =>
          /\ SidesDiffer(engine.call.old, engine.call.new)
          /\ engine.call.d < RoundsBound(engine.call.old.len, engine.call.new.len)
    /\ (pc \in {"myers", "myers_done"} /\ engine.snake # <<>>) => SnakeInBounds(engine.snake)

\* C22 - Middle-snake termination: every call of find_middle_snake, made on
\* two non-empty sides with no common prefix and no common suffix, returns
\* a snake in a round d < max_d and never reaches unreachable!(); the snake
\* has 0 <= x_start <= x_end <= n and 0 <= y_start <= y_end <= m; and the
\* calls of conquer on the halves come to an end: do_diff returns.
C22_MiddleSnakeTermination == [](MiddleSnakeFound) /\ <>(pc = "myers_done")

\* C22: a snake of more than one atom found in the second round or later, by
\* a call of conquer inside another
C22_Witness ==
    /\ pc = "myers"
    /\ engine.snake # <<>>
    /\ engine.snake.d >= 2
    /\ engine.snake.snake.x_end > engine.snake.snake.x_start
    /\ engine.snake.old.len < Len(old)
    /\ Len(engine.stack) >= 3

\* An Equal is genuine: its two ranges lie in their texts, are as long as
\* each other and hold the same atoms
Genuine(d) ==
    d.kind = "Equal" =>
        /\ d.r1.len = d.r2.len
        /\ d.r1.offset >= 0 /\ d.r1.offset + d.r1.len <= Len(old)
        /\ d.r2.offset >= 0 /\ d.r2.offset + d.r2.len <= Len(new)
        /\ \A i \in 1..d.r1.len : old[d.r1.offset + i] = new[d.r2.offset + i]

\* C23 - Equal segments are genuine: in the list myers::diff returns and in
\* the list of compact after every turn of its loops, of shift_diff_up and
\* of shift_diff_down, each Equal has two ranges of the same length that
\* are equal atom for atom.
C23_EqualSegmentsGenuine ==
    /\ \A i \in 1..Len(solution.solution) : Genuine(solution.solution[i])
    /\ \A i \in 1..Len(engine.diffs) : Genuine(engine.diffs[i])
    /\ pc = "compact_done" => \A i \in 1..Len(result.diffs) : Genuine(result.diffs[i])

\* C23: in the middle of a pass the list of compact holds an Equal that
\* was not in the list myers::diff returned for these texts
C23_Witness ==
    /\ pc = "compact"
    /\ engine.phase \in {"up", "down"}
    /\ solution = do_diff(old, new)
    /\ \E i \in 1..Len(engine.diffs) :
          /\ engine.diffs[i].kind = "Equal"
          /\ engine.diffs[i].r1.len > 0
          /\ \A j \in 1..Len(solution.solution) : solution.solution[j] # engine.diffs[i]

\* The text LineIter was made for, on the side classify_lines is at
GivenText == IF engine.side = "old" THEN old ELSE new

\* The number of newlines of a text
RECURSIVE NewlinesOf(_)
NewlinesOf(s) ==
    IF Len(s) = 0 THEN 0 ELSE (IF Head(s) = NL THEN 1 ELSE 0) + NewlinesOf(Tail(s))

\* The lines are those of the text: they concatenate to it, none is empty,
\* a newline is only ever the last character of a line, and every line but
\* the last ends with one.
LinesOfText(ls, given) ==
    /\ Concat(ls) = given
    /\ \A i \in 1..Len(ls) :
          /\ Len(ls[i]) > 0
          /\ \A j \in 1..(Len(ls[i]) - 1) : ls[i][j] # NL
          /\ i < Len(ls) => ls[i][Len(ls[i])] = NL
    /\ Len(given) = 0 <=> Len(ls) = 0
    /\ Len(given) > 0 =>
          (ls[Len(ls)][Len(ls[Len(ls)])] # NL <=> given[Len(given)] # NL)
    /\ Len(ls) = NewlinesOf(given)
                 + (IF Len(given) > 0 /\ given[Len(given)] # NL THEN 1 ELSE 0)

\* C24 - Line iteration: the lines LineIter has yielded, with the text it
\* has left, concatenate to the text; when it is exhausted the lines
\* concatenate to exactly the text, every line but possibly the last ends
\* with '\n' and no line has a '\n' before its last character, the last line
\* lacks '\n' if and only if the text does not end with one, the empty text
\* yields no line, and a '\r' does not end a line: there is one line for each
\* '\n' and one more for what follows the last.
C24_LineIteration ==
    /\ pc = "classify" =>
          /\ Concat(engine.lines) \o engine.rest = GivenText
          /\ \A i \in 1..Len(engine.lines) :
                (i < Len(engine.lines) \/ Len(engine.rest) > 0)
                    => engine.lines[i][Len(engine.lines[i])] = NL
          /\ Len(engine.rest) = 0 => LinesOfText(engine.lines, GivenText)
          /\ LinesOfText(engine.old_lines, IF engine.side = "old" THEN <<>> ELSE old)
    /\ pc = "classified" =>
          /\ LinesOfText(result.old_lines, old)
          /\ LinesOfText(result.new_lines, new)

\* C24: a text whose line holds a '\r' that is not before a '\n', followed
\* by a last line with no '\n'
C24_Witness ==
    /\ pc = "classified"
    /\ Len(result.old_lines) = 2
    /\ \E j \in 1..(Len(result.old_lines[1]) - 1) :
          /\ result.old_lines[1][j] = CR
          /\ result.old_lines[1][j + 1] = "a"
    /\ result.old_lines[2] = <<"a">>

\* The 1-based index at which the i-th of the lines occurs first
FirstOccurrence(ls, i) == CHOOSE j \in 1..i : ls[j] = ls[i] /\ \A k \in 1..(j - 1) : ls[k] # ls[i]

\* The ids tell the lines apart, and count them in the order they come:
\* two lines have one id exactly when they are equal, and the id of a line
\* is the number of different lines before its first occurrence.
IdsIdentify(ls, ids) ==
    /\ Len(ids) = Len(ls)
    /\ \A i, j \in 1..Len(ls) : (ids[i] = ids[j]) <=> (ls[i] = ls[j])
    /\ \A i \in 1..Len(ls) :
          ids[i] = Cardinality({ls[k] : k \in 1..(FirstOccurrence(ls, i) - 1)})

\* C25 - Line classifier: over the lines of both texts, classified with the
\* one classifier of a diff, ids[i] = ids[j] if and only if lines[i] and
\* lines[j] are equal byte for byte, and the ids are 0, 1, 2, ... in the
\* order in which the lines occur first.
C25_LineClassifier ==
    /\ pc = "classify" =>
          IdsIdentify(engine.old_lines \o engine.lines, engine.old_ids \o engine.ids)
    /\ pc = "classified" =>
          IdsIdentify(result.old_lines \o result.new_lines, result.old_ids \o result.new_ids)

\* C25: the second text has a line of the first, a line of its own and
\* one of its lines twice
C25_Witness ==
    /\ pc = "classified"
    /\ Len(result.old_ids) >= 2
    /\ \E i \in 1..Len(result.new_ids) : result.new_ids[i] \in {result.old_ids[k] : k \in 1..Len(result.old_ids)}
    /\ \E i \in 1..Len(result.new_ids) : result.new_ids[i] \notin {result.old_ids[k] : k \in 1..Len(result.old_ids)}
    /\ \E i, j \in 1..Len(result.new_ids) : i < j /\ result.new_ids[i] = result.new_ids[j]

\* The diagonal of the opposite array the overlap test reads for diagonal k
Opposite(call) == -(call.k - (call.old.len - call.new.len))

\* The overlap test of the forward path is made on this turn
ForwardOverlapTested(call) ==
    /\ call.path = "forward"
    /\ IsOdd(call.old.len - call.new.len)
    /\ Abs(call.k - (call.old.len - call.new.len)) <= call.d - 1

\* The overlap test of the backward path is made on this turn
BackwardOverlapTested(call) ==
    /\ call.path = "backward"
    /\ ~IsOdd(call.old.len - call.new.len)
    /\ Abs(call.k - (call.old.len - call.new.len)) <= call.d

\* The reads and the write of the turn find_middle_snake is about to make
\* are inside the arrays, and the overlap test reads an entry of the
\* opposite array this call has written.
TurnInsideArrays(call, v, opposite, wrote_opposite) ==
    /\ call.k # -call.d => VIn(v, call.k - 1)
    /\ (call.k = -call.d \/ call.k # call.d) => VIn(v, call.k + 1)
    /\ VIn(v, call.k)
    /\ (ForwardOverlapTested(call) \/ BackwardOverlapTested(call)) =>
          /\ VIn(opposite, Opposite(call))
          /\ Opposite(call) \in wrote_opposite

\* C26 - V-array index safety: in every call of conquer of a diff, with the
\* two V arrays do_diff allocated once with 2 * max_d entries for the
\* lengths of the whole texts, vf[1] and vb[1] are inside the arrays, every
\* read and write vf[k], vf[k-1], vf[k+1], vb[k], vb[-(k - delta)] of
\* find_middle_snake is inside its array, the overlap test only reads
\* entries of the opposite array written during the current call, and no
\* indexing panics.
C26_VArrayIndexSafety ==
    /\ pc # "panicked"
    /\ (pc = "myers" /\ engine.call # NoCall) =>
          /\ VIn(engine.vf, 1) /\ VIn(engine.vb, 1)
          /\ IF engine.call.path = "forward"
             THEN TurnInsideArrays(engine.call, engine.vf, engine.vb, engine.call.wrote_b)
             ELSE TurnInsideArrays(engine.call, engine.vb, engine.vf, engine.call.wrote_f)

\* C26: in a call of conquer inside another, on sides shorter than the
\* texts, the overlap test is about to read an entry of the opposite array
\* other than the one find_middle_snake set at its start
C26_Witness ==
    /\ pc = "myers"
    /\ engine.call # NoCall
    /\ engine.call.old.len + engine.call.new.len < Len(old) + Len(new)
    /\ Len(engine.stack) >= 1
    /\ ForwardOverlapTested(engine.call)
    /\ Opposite(engine.call) # 1
    /\ engine.call.d >= 2

\* The length of the longest common subsequence of a and b
RECURSIVE LCS(_, _)
LCS(a, b) ==
    IF Len(a) = 0 \/ Len(b) = 0 THEN 0
    ELSE IF Head(a) = Head(b) THEN 1 + LCS(Tail(a), Tail(b))
    ELSE Max(LCS(Tail(a), b), LCS(a, Tail(b)))

\* The number of atoms the Deletes and the Inserts of a list hold
RECURSIVE EditTotal(_)
EditTotal(diffs) ==
    IF Len(diffs) = 0 THEN 0
    ELSE (IF Head(diffs).kind = "Equal" THEN 0 ELSE inner(Head(diffs)).len)
         + EditTotal(Tail(diffs))

\* C27 - Minimal edit script: the Deletes and Inserts myers::diff returns
\* for a and b hold |a| + |b| - 2 * LCS(a, b) atoms in all, the length of the
\* shortest edit script, and no turn of compact changes the number of atoms
\* of the Deletes and Inserts of its list, so that diff_slice(a, b) returns
\* that many.
C27_MinimalEditScript ==
    (pc \in {"compact", "compact_done"}) =>
        /\ producer = "myers" =>
              EditTotal(solution.solution) = Len(old) + Len(new) - 2 * LCS(old, new)
        /\ EditTotal(engine.diffs) = EditTotal(solution.solution)
        /\ pc = "compact_done" => EditTotal(result.diffs) = EditTotal(solution.solution)

\* C27: compact has returned another list than myers::diff handed it, for
\* two texts with a common subsequence of two atoms that is neither text
C27_Witness ==
    /\ pc = "compact_done"
    /\ producer = "myers"
    /\ result.diffs # solution.solution
    /\ LCS(old, new) >= 2
    /\ LCS(old, new) < Len(old)
    /\ LCS(old, new) < Len(new)

\* A hunk has a line that is deleted or inserted
HasEdit(hunk) == \E i \in 1..Len(hunk.lines) : hunk.lines[i].kind \in {"Delete", "Insert"}

\* C28 - No empty edits: the diff of two sequences has no Delete and no
\* Insert of length zero; for identical inputs it has only Equal segments and
\* the patch created has no hunks; and every hunk of a created patch has at
\* least one Delete or Insert line.
C28_NoEmptyEdits ==
    /\ pc = "diffed" =>
          /\ solution.tag = "ok"
          /\ \A i \in 1..Len(solution.solution) :
                solution.solution[i].kind \in {"Delete", "Insert"}
                    => Len(solution.solution[i].slice) > 0
          /\ old = new => \A i \in 1..Len(solution.solution) : solution.solution[i].kind = "Equal"
    /\ pc = "patched" =>
          /\ ~IsPanic(patch)
          /\ old = new => Len(patch.patch.hunks) = 0
          /\ \A i \in 1..Len(patch.patch.hunks) : HasEdit(patch.patch.hunks[i])

\* A range of a segment lies in the text behind it
InsideText(r, backing) ==
    r.offset >= 0 /\ r.len >= 0 /\ r.offset + r.len <= Len(backing)

\* The ranges of a segment that stand for something lie in their texts
InsideTexts(d) ==
    /\ d.kind \in {"Equal", "Delete"} => InsideText(d.r1, old)
    /\ d.kind \in {"Equal", "Insert"} => InsideText(d.r2, new)

\* While shift_diff_up or shift_diff_down runs, the pointer is at an edit of
\* the kind the pass of compact moves
PointerAtEdit ==
    (pc = "compact" /\ engine.phase \in {"up", "down"}) =>
        /\ engine.pointer >= 0
        /\ engine.pointer < Len(engine.diffs)
        /\ engine.diffs[engine.pointer + 1].kind = engine.kind

\* compact is safe so far: no panic, every range in its text, the pointer
\* at the edit being moved
CompactSafe ==
    /\ pc # "panicked"
    /\ \A i \in 1..Len(engine.diffs) : InsideTexts(engine.diffs[i])
    /\ PointerAtEdit

\* C29 - Compaction terminates safely: for a list built as test_compact
\* builds them or returned by myers::diff, compact returns; after every turn
\* of its loops and of those of shift_diff_up and shift_diff_down each range
\* lies in its text, nothing was subtracted below zero, and the pointer is
\* at an edit of the kind being moved, so that the panic "range to shift
\* must be either Insert or Delete" is never reached.
C29_CompactionTerminatesSafely ==
    [](CompactSafe) /\ <>(pc = "compact_done")

\* C29: shift_diff_down runs at a pointer past the top of a list built by
\* hand that the turns before have changed
C29_Witness ==
    /\ pc = "compact"
    /\ producer = "test_compact"
    /\ engine.phase = "down"
    /\ engine.pointer > 0
    /\ engine.kind = "Insert"
    /\ Len(engine.diffs) < Len(solution.solution)

\* The image after only the hunks from the i-th on that apply_hunk applied
\* in this run, each applied as apply_hunk applies it; "err" when one of
\* them does not apply
RECURSIVE ApplySucceeded(_, _)
ApplySucceeded(img, i) ==
    IF i > Len(attempts) THEN [tag |-> "ok", image |-> img]
    ELSE IF attempts[i].tag # "ok" THEN ApplySucceeded(img, i + 1)
    ELSE LET r == apply_hunk(img, patch.patch.hunks[i], options.max_fuzzy)
         IN  IF r.tag = "ok" THEN ApplySucceeded(r.image, i + 1) ELSE [tag |-> "err"]

\* The image before the call of apply_hunk after the i-th, or the image as
\* it is when the i-th is the last
ImageLeftBy(i) == IF i = Len(attempts) THEN image ELSE attempts[i + 1].before

\* C30 - A failed hunk changes nothing: when apply_hunk returns Err, in
\* apply and in apply_all, the image it leaves has the lines, the order and
\* the Patched and Unpatched tags it had before the call; and the text
\* apply_all returns is the text of the base image after only the hunks
\* that were applied.
C30_FailedHunkChangesNothing ==
    /\ pc \in {"apply", "done"} =>
          \A i \in 1..Len(attempts) :
              attempts[i].tag = "err" => ImageLeftBy(i) = attempts[i].before
    /\ (pc = "done" /\ ~strict /\ result.tag = "Ok") =>
          /\ ApplySucceeded(ImageOf(base_image), 1).tag = "ok"
          /\ result.text = ImageText(ApplySucceeded(ImageOf(base_image), 1).image)

\* C30: apply_all returned a text other than the base image's after a hunk
\* failed on an image that a hunk before it had changed
C30_Witness ==
    /\ pc = "done"
    /\ ~strict
    /\ result.tag = "Ok"
    /\ result.text # base_image
    /\ \E i \in 2..Len(attempts) :
          /\ attempts[i].tag = "err"
          /\ attempts[i].before # ImageOf(base_image)
          /\ \E j \in 1..(i - 1) : attempts[j].tag = "ok"
====
